---------------------------- MODULE Spec2Model ----------------------------
(***************************************************************************)
(* LabExT movement core: Transformations.py (AxesRotation,                 *)
(* SinglePointTransformation, KabschRotation), Calibration.py (state       *)
(* machine, guarded operations, wiggle) and MoverNew.py (two-stage         *)
(* collision-avoidance moves, registry, settings, lift and lower), and the *)
(* wiggle entry points of the controllers in View/.                        *)
(*                                                                         *)
(* Coordinates are integer micrometres.  An absent value (Python None) is  *)
(* the empty sequence, a present value v is <<v>>.                         *)
(***************************************************************************)
EXTENDS Integers, Sequences, FiniteSets, TLC

VARIABLES calibrations, stages, mover, controllers, last

vars == <<calibrations, stages, mover, controllers, last>>

(***************************************************************************)
(* Bounds of the model.                                                    *)
(***************************************************************************)
\* number of devices of the chip that can be paired
NumDevices == 3
\* a single stage travels within -MaxTravel*Step .. MaxTravel*Step on each axis
MaxTravel == 1
\* the two stages of the mover stay within -MaxSteps*Step .. MaxSteps*Step
MaxSteps == 2

(***************************************************************************)
(* Program constants.                                                      *)
(***************************************************************************)
\* Transformations.Axis
X == 0
Y == 1
Z == 2
Axis == {X, Y, Z}
\* Transformations.Direction
POSITIVE == 1
NEGATIVE == -1
\* Calibration.State
NOT_CONFIGURED == 0
CONNECTED == 1
COORDINATE_SYSTEM_FIXED == 2
SINGLE_POINT_FIXED == 3
FULLY_CALIBRATED == 4
\* KabschRotation.MIN_POINTS
MIN_POINTS == 3
\* MoverNew.MIN_FIBER_DISTANCE = 1.1 * 125.0 = 137.5, kept exact as tenths
MIN_FIBER_DISTANCE_x10 == 11 * 125
\* MoverNew.DEFAULT_SPEED_Z, which __init__ also uses for _z_lift
DEFAULT_SPEED_Z == 20
\* default wiggle_speed of Calibration.wiggle_axis (1e3)
WIGGLE_SPEED == 1000

\* the coordinate systems current_coordinate_system can name; "Coordinate"
\* is the untagged base class, which no guarded operation declares
CoordinateSystems == {"ChipCoordinate", "StageCoordinate", "Coordinate"}

None == <<>>
Some(v) == <<v>>
IsNone(o) == o = <<>>
Get(o) == o[1]

(***************************************************************************)
(* Coordinate arithmetic (Coordinate.__add__, __sub__ on equal types).     *)
(***************************************************************************)
VAdd(a, b) == <<a[1] + b[1], a[2] + b[2], a[3] + b[3]>>
VSub(a, b) == <<a[1] - b[1], a[2] - b[2], a[3] - b[3]>>
VNeg(a) == <<-a[1], -a[2], -a[3]>>
VDotV(a, b) == a[1] * b[1] + a[2] * b[2] + a[3] * b[3]
Abs(n) == IF n < 0 THEN -n ELSE n

\* matrix . vector (numpy dot); a matrix is a tuple of three rows
Dot(m, v) == <<VDotV(m[1], v), VDotV(m[2], v), VDotV(m[3], v)>>
Transpose(m) == [r \in 1..3 |-> [c \in 1..3 |-> m[c][r]]]

(***************************************************************************)
(* AxesRotation.  _matrix[row][column]: update() writes a COLUMN, the one  *)
(* of the chip axis, so rows are stage axes and columns chip axes.         *)
(***************************************************************************)
Identity == <<<<1, 0, 0>>, <<0, 1, 0>>, <<0, 0, 1>>>>

\* self._matrix[:, chip_axis.value] = np.eye(1, 3, stage_axis.value) * direction.value
AxesUpdate(m, chip_axis, direction, stage_axis) ==
    [r \in 1..3 |-> [c \in 1..3 |->
        IF c = chip_axis + 1
        THEN (IF r = stage_axis + 1 THEN direction ELSE 0)
        ELSE m[r][c]]]

\* faulty variant: only the columns are summed
AxesIsValid_ColumnsOnly(m) ==
    \A c \in 1..3 : Abs(m[1][c]) + Abs(m[2][c]) + Abs(m[3][c]) = 1

\* (abs.sum(axis=0) == 1).all() and (abs.sum(axis=1) == 1).all()
AxesIsValid(m) ==
    /\ \A c \in 1..3 : Abs(m[1][c]) + Abs(m[2][c]) + Abs(m[3][c]) = 1
    /\ \A r \in 1..3 : Abs(m[r][1]) + Abs(m[r][2]) + Abs(m[r][3]) = 1

\* np.linalg.inv of a signed permutation matrix is its transpose; the callers
\* reach it only behind the is_valid guard
MatInv(m) == Transpose(m)

\* faulty variant: the matrix is applied without asking is_valid
RotateChipToStage_Unchecked(m, chip_coordinate) == Some(Dot(m, chip_coordinate))

\* rotate_chip_to_stage / rotate_stage_to_chip; <<>> stands for the ValueError
RotateChipToStage(m, chip_coordinate) ==
    IF ~AxesIsValid(m) THEN None ELSE Some(Dot(m, chip_coordinate))

\* faulty variant: the matrix is applied as it is, not inverted
RotateStageToChip_NotInverted(m, stage_coordinate) ==
    IF ~AxesIsValid(m) THEN None ELSE Some(Dot(m, stage_coordinate))

RotateStageToChip(m, stage_coordinate) ==
    IF ~AxesIsValid(m) THEN None ELSE Some(Dot(MatInv(m), stage_coordinate))

(***************************************************************************)
(* CoordinatePairing(calibration, stage_coordinate, device,                *)
(* chip_coordinate); each field may be None.                               *)
(***************************************************************************)
CoordinatePairing(stage_coordinate, device, chip_coordinate) ==
    [stage_coordinate |-> stage_coordinate, device |-> device,
     chip_coordinate |-> chip_coordinate]

(***************************************************************************)
(* SinglePointTransformation.  sp is the record of its fields; m is the    *)
(* matrix of the AxesRotation it shares with the calibration.              *)
(***************************************************************************)
\* __init__ and reset()
SPEmpty ==
    [pairing |-> None, chip_coordinate |-> None, stage_coordinate |-> None,
     stage_offset |-> None]

\* self._stage_offset is not None and self._axes_rotation.is_valid
SPIsValid(sp, m) == ~IsNone(sp.stage_offset) /\ AxesIsValid(m)

\* update(pairing): the pairing and both coordinates are stored before the
\* rotation is asked for the offset, so a ValueError of the rotation leaves
\* them stored with the old offset
SPUpdate(sp, m, pairing) ==
    IF IsNone(pairing.chip_coordinate) \/ IsNone(pairing.stage_coordinate)
    THEN [sp |-> sp, outcome |-> "ValueError"]
    ELSE LET stored == [sp EXCEPT !.pairing = Some(pairing),
                                  !.chip_coordinate = pairing.chip_coordinate,
                                  !.stage_coordinate = pairing.stage_coordinate]
             rotated == RotateChipToStage(m, Get(pairing.chip_coordinate))
         IN  IF IsNone(rotated)
             THEN [sp |-> stored, outcome |-> "ValueError"]
             ELSE [sp |-> [stored EXCEPT !.stage_offset =
                               Some(VSub(Get(rotated), Get(pairing.stage_coordinate)))],
                   outcome |-> "ok"]

\* chip_to_stage: rotate + offset; <<>> stands for the RuntimeError
SPChipToStage(sp, m, chip_coordinate) ==
    IF ~SPIsValid(sp, m) THEN None
    ELSE Some(VAdd(Get(RotateChipToStage(m, chip_coordinate)), Get(sp.stage_offset)))

\* stage_to_chip: rotate back (stage - offset)
SPStageToChip(sp, m, stage_coordinate) ==
    IF ~SPIsValid(sp, m) THEN None
    ELSE RotateStageToChip(m, VSub(stage_coordinate, Get(sp.stage_offset)))

(***************************************************************************)
(* KabschRotation.  kabsch is the record of its fields.  The rotation and  *)
(* the RMSD are read only behind is_valid, so the model keeps the rotation *)
(* from the third pairing on.                                              *)
(***************************************************************************)
\* __init__ and reset()
KabschEmpty ==
    [pairings |-> <<>>, rotation |-> None, chip_offset |-> None,
     stage_offset |-> None]

RECURSIVE VSum(_)
VSum(vs) == IF vs = <<>> THEN <<0, 0, 0>> ELSE VAdd(Head(vs), VSum(Tail(vs)))

\* numpy mean(axis=0); the pairings of the model have integral means
Mean(vs) ==
    LET s == VSum(vs) n == Len(vs)
    IN  <<s[1] \div n, s[2] \div n, s[3] \div n>>

\* len(self.pairings) >= self.MIN_POINTS
KabschIsValid(kabsch) == Len(kabsch.pairings) >= MIN_POINTS

\* the rotations of the cube: signed permutation matrices of determinant 1
Det(m) ==
      m[1][1] * (m[2][2] * m[3][3] - m[2][3] * m[3][2])
    - m[1][2] * (m[2][1] * m[3][3] - m[2][3] * m[3][1])
    + m[1][3] * (m[2][1] * m[3][2] - m[2][2] * m[3][1])

SignedUnit == {<<1, 0, 0>>, <<-1, 0, 0>>, <<0, 1, 0>>, <<0, -1, 0>>,
               <<0, 0, 1>>, <<0, 0, -1>>}
SignedPermutations ==
    {m \in {<<a, b, c>> : a \in SignedUnit, b \in SignedUnit, c \in SignedUnit} :
        AxesIsValid(m)}
ProperRotations == {m \in SignedPermutations : Det(m) = 1}

\* sum of a_i . (R b_i): maximal exactly where sum |a_i - R b_i|^2 is minimal
RECURSIVE Overlap(_, _, _)
Overlap(R, as, bs) ==
    IF as = <<>> THEN 0
    ELSE VDotV(Head(as), Dot(R, Head(bs))) + Overlap(R, Tail(as), Tail(bs))

SetMax(S) == CHOOSE x \in S : \A y \in S : y <= x

\* Rotation.align_vectors(a, b): the rotation R minimising
\* sum |a_i - R b_i|^2.  The pairings of the model are measured on a chip
\* mounted along the stage axes, so the minimum is attained by a rotation of
\* the cube.
AlignVectors(as, bs) ==
    LET best == SetMax({Overlap(R, as, bs) : R \in ProperRotations})
    IN  CHOOSE R \in ProperRotations : Overlap(R, as, bs) = best

\* faulty variant: a second pairing of a device is appended like any other
KabschUpdate_DeviceUnchecked(kabsch, pairing) ==
    IF \/ IsNone(pairing.stage_coordinate) \/ IsNone(pairing.device)
       \/ IsNone(pairing.chip_coordinate)
    THEN [kabsch |-> kabsch, outcome |-> "ValueError"]
    ELSE LET pairings == Append(kabsch.pairings, pairing)
             n == Len(pairings)
             chips == [i \in 1..n |-> Get(pairings[i].chip_coordinate)]
             stgs == [i \in 1..n |-> Get(pairings[i].stage_coordinate)]
             chip_offset == Mean(chips)
             stage_offset == Mean(stgs)
             as == [i \in 1..n |-> VSub(chips[i], chip_offset)]
             bs == [i \in 1..n |-> VSub(stgs[i], stage_offset)]
         IN  [kabsch |-> [pairings |-> pairings,
                          rotation |-> IF n >= MIN_POINTS
                                       THEN Some(AlignVectors(as, bs)) ELSE None,
                          chip_offset |-> Some(chip_offset),
                          stage_offset |-> Some(stage_offset)],
              outcome |-> "ok"]

\* update(pairing): rejects an incomplete pairing and a second pairing of a
\* device; else appends it and recomputes both centroids and the rotation
\* from all pairings
KabschUpdate(kabsch, pairing) ==
    IF \/ IsNone(pairing.stage_coordinate) \/ IsNone(pairing.device)
       \/ IsNone(pairing.chip_coordinate)
    THEN [kabsch |-> kabsch, outcome |-> "ValueError"]
    ELSE IF \E i \in 1..Len(kabsch.pairings) : kabsch.pairings[i].device = pairing.device
    THEN [kabsch |-> kabsch, outcome |-> "ValueError"]
    ELSE LET pairings == Append(kabsch.pairings, pairing)
             n == Len(pairings)
             chips == [i \in 1..n |-> Get(pairings[i].chip_coordinate)]
             stgs == [i \in 1..n |-> Get(pairings[i].stage_coordinate)]
             chip_offset == Mean(chips)
             stage_offset == Mean(stgs)
             as == [i \in 1..n |-> VSub(chips[i], chip_offset)]
             bs == [i \in 1..n |-> VSub(stgs[i], stage_offset)]
         IN  [kabsch |-> [pairings |-> pairings,
                          rotation |-> IF n >= MIN_POINTS
                                       THEN Some(AlignVectors(as, bs)) ELSE None,
                          chip_offset |-> Some(chip_offset),
                          stage_offset |-> Some(stage_offset)],
              outcome |-> "ok"]

\* chip_to_stage: rotation.apply(chip - chip_offset, inverse=True) + stage_offset
KabschChipToStage(kabsch, chip_coordinate) ==
    IF ~KabschIsValid(kabsch) THEN None
    ELSE Some(VAdd(Dot(MatInv(Get(kabsch.rotation)),
                       VSub(chip_coordinate, Get(kabsch.chip_offset))),
                   Get(kabsch.stage_offset)))

\* stage_to_chip: rotation.apply(stage - stage_offset) + chip_offset
KabschStageToChip(kabsch, stage_coordinate) ==
    IF ~KabschIsValid(kabsch) THEN None
    ELSE Some(VAdd(Dot(Get(kabsch.rotation),
                       VSub(stage_coordinate, Get(kabsch.stage_offset))),
                   Get(kabsch.chip_offset)))

(***************************************************************************)
(* The stage driver (LabExT.Movement.Stage) as the core uses it.  A driver *)
(* command is logged in w.calls; the command whose number is w.failAt      *)
(* raises StageError and has no effect.                                    *)
(*                                                                         *)
(* w is the world an operation runs in: the calibrations, the stages, the  *)
(* mover's fields, the driver commands issued so far, the exception that   *)
(* is propagating ("ok" when none), the returned value and the number of   *)
(* guarded bodies that have run.  A statement that follows a raised        *)
(* exception does not run: an operation leaves a world in which an         *)
(* exception is propagating as it is.                                      *)
(***************************************************************************)
Ok(w) == w.outcome = "ok"
Raise(w, exception) == [w EXCEPT !.outcome = exception]
Return(w, value) == [w EXCEPT !.ret = value]

\* the element of a one-element set: The({e : v \in {w}}) is e with v bound
\* to the world w, which is then computed once however often e reads it
The(S) == CHOOSE x \in S : TRUE

StageCommand(w, s, cmd, arg) ==
    The({ LET logged == [v EXCEPT !.calls = Append(@, [stage |-> s, cmd |-> cmd,
                                                       arg |-> arg])]
          IN  IF ~Ok(v) THEN v
              ELSE IF Len(logged.calls) = v.failAt THEN Raise(logged, "StageError")
              ELSE CASE cmd = "move_relative" ->
                          [logged EXCEPT !.stages[s].position = VAdd(@, arg)]
                     [] cmd = "move_absolute" ->
                          [logged EXCEPT !.stages[s].position = arg]
                     [] cmd = "set_speed_xy" ->
                          [logged EXCEPT !.stages[s].speed_xy = arg[1]]
                     [] cmd = "set_speed_z" ->
                          [logged EXCEPT !.stages[s].speed_z = arg[1]]
                     [] cmd = "set_acceleration_xy" ->
                          [logged EXCEPT !.stages[s].acceleration_xy = arg[1]]
          : v \in {w} })

\* stage.get_status(): "ok" a status, "none" no answer, "error" StageError
StageGetStatus(w, s) == w.stages[s].status

MotionCommands == {"move_relative", "move_absolute"}
Motions(calls) == SelectSeq(calls, LAMBDA c : c.cmd \in MotionCommands)

(***************************************************************************)
(* Calibration.                                                            *)
(***************************************************************************)
\* __init__
NewCalibration(stage, connected, orientation, device_port) ==
    [stage |-> stage,
     state |-> IF connected THEN CONNECTED ELSE NOT_CONFIGURED,
     orientation |-> orientation,
     device_port |-> device_port,
     axes_rotation |-> Identity,
     single_point_transformation |-> SPEmpty,
     full_transformation |-> KabschEmpty,
     current_coordinate_system |-> "None"]

\* faulty variant: a valid Kabsch fit alone yields FULLY_CALIBRATED
StateFromProbes_FullWithoutSinglePoint(responds, axes_valid, single_valid, full_valid) ==
    IF ~responds THEN NOT_CONFIGURED
    ELSE IF ~axes_valid THEN CONNECTED
    ELSE IF full_valid THEN FULLY_CALIBRATED
    ELSE IF ~single_valid THEN COORDINATE_SYSTEM_FIXED
    ELSE SINGLE_POINT_FIXED

\* determine_state, lines 234-268: the chain of early returns
StateFromProbes(responds, axes_valid, single_valid, full_valid) ==
    IF ~responds THEN NOT_CONFIGURED
    ELSE IF ~axes_valid THEN CONNECTED
    ELSE IF ~single_valid THEN COORDINATE_SYSTEM_FIXED
    ELSE IF ~full_valid THEN SINGLE_POINT_FIXED
    ELSE FULLY_CALIBRATED

\* faulty variant: a StageError of get_status() is not caught
DetermineState_StageErrorRaised(w, k, skip_connection) ==
    LET c == w.calibrations[k]
        responds == skip_connection \/ StageGetStatus(w, c.stage) = "ok"
        determined ==
            [w EXCEPT !.calibrations[k].state =
                StateFromProbes(responds,
                                AxesIsValid(c.axes_rotation),
                                SPIsValid(c.single_point_transformation, c.axes_rotation),
                                KabschIsValid(c.full_transformation))]
    IN  IF ~skip_connection /\ StageGetStatus(w, c.stage) = "error"
        THEN Raise(determined, "StageError")
        ELSE determined

\* determine_state(skip_connection): a StageError of get_status() is caught
DetermineState(w, k, skip_connection) ==
    LET c == w.calibrations[k]
        responds == skip_connection \/ StageGetStatus(w, c.stage) = "ok"
    IN  [w EXCEPT !.calibrations[k].state =
            StateFromProbes(responds,
                            AxesIsValid(c.axes_rotation),
                            SPIsValid(c.single_point_transformation, c.axes_rotation),
                            KabschIsValid(c.full_transformation))]

\* connect_to_stage / disconnect_from_stage
ConnectToStage(w, k) ==
    LET s == w.calibrations[k].stage
    IN  DetermineState([w EXCEPT !.stages[s].connected = TRUE,
                                 !.stages[s].status = "ok"], k, FALSE)

DisconnectFromStage(w, k) ==
    LET s == w.calibrations[k].stage
    IN  DetermineState([w EXCEPT !.stages[s].connected = FALSE,
                                 !.stages[s].status = "none"], k, FALSE)

\* faulty variant: the state is not recomputed after the update
UpdateAxesRotation_NoDetermine(w, k, chip_axis, direction, stage_axis) ==
    [w EXCEPT !.calibrations[k].axes_rotation = AxesUpdate(@, chip_axis, direction, stage_axis)]

\* faulty variant: the single-point transform is reset with the rotation
UpdateAxesRotation_ResetsSinglePoint(w, k, chip_axis, direction, stage_axis) ==
    DetermineState(
        [w EXCEPT !.calibrations[k].axes_rotation = AxesUpdate(@, chip_axis, direction, stage_axis),
                  !.calibrations[k].single_point_transformation = SPEmpty],
        k, TRUE)

\* update_axes_rotation
UpdateAxesRotation(w, k, chip_axis, direction, stage_axis) ==
    DetermineState(
        [w EXCEPT !.calibrations[k].axes_rotation = AxesUpdate(@, chip_axis, direction, stage_axis)],
        k, TRUE)

\* update_single_point_transformation
UpdateSinglePointTransformation(w, k, pairing) ==
    LET c == w.calibrations[k]
        u == SPUpdate(c.single_point_transformation, c.axes_rotation, pairing)
        stored == [w EXCEPT !.calibrations[k].single_point_transformation = u.sp]
    IN  IF u.outcome # "ok" THEN Raise(stored, u.outcome)
        ELSE DetermineState(stored, k, TRUE)

\* update_full_transformation
UpdateFullTransformation(w, k, pairing) ==
    LET c == w.calibrations[k]
        u == KabschUpdate(c.full_transformation, pairing)
        stored == [w EXCEPT !.calibrations[k].full_transformation = u.kabsch]
    IN  IF u.outcome # "ok" THEN Raise(stored, u.outcome)
        ELSE DetermineState(stored, k, TRUE)

\* faulty variant: the state is determined from the stage's answer
CalibrationReset_ByStatus(w, k) ==
    LET c == w.calibrations[k]
    IN  [w EXCEPT !.calibrations[k].axes_rotation = Identity,
                  !.calibrations[k].single_point_transformation = SPEmpty,
                  !.calibrations[k].full_transformation = KabschEmpty,
                  !.calibrations[k].state =
                      IF StageGetStatus(w, c.stage) = "ok"
                      THEN CONNECTED ELSE NOT_CONFIGURED]

\* reset()
CalibrationReset(w, k) ==
    LET c == w.calibrations[k]
    IN  [w EXCEPT !.calibrations[k].axes_rotation = Identity,
                  !.calibrations[k].single_point_transformation = SPEmpty,
                  !.calibrations[k].full_transformation = KabschEmpty,
                  !.calibrations[k].state =
                      IF w.stages[c.stage].connected THEN CONNECTED ELSE NOT_CONFIGURED]

(***************************************************************************)
(* Calibration: coordinate-system scope and guarded operations.            *)
(***************************************************************************)
\* Calibration.in_coordinate_system: the selection before the yield
EnterCoordinateSystem(w, k, coordinate_system) ==
    [w EXCEPT !.calibrations[k].current_coordinate_system = coordinate_system]

\* Calibration.in_coordinate_system: the finally block, which runs whether
\* the body completed or raised
LeaveCoordinateSystem(w, k) ==
    [w EXCEPT !.calibrations[k].current_coordinate_system = "None"]

\* faulty variant: the state has to exceed the required one
AssertMinStateByCoordinateSystem_Strict(c, constraints) ==
    IF c.current_coordinate_system = "None" THEN "CalibrationError"
    ELSE IF c.current_coordinate_system \notin DOMAIN constraints THEN "ValueError"
    ELSE IF c.state <= constraints[c.current_coordinate_system] THEN "CalibrationError"
    ELSE "ok"

\* faulty variant: a missing coordinate system is looked up like any other
AssertMinStateByCoordinateSystem_NoneLookedUp(c, constraints) ==
    IF c.current_coordinate_system \notin DOMAIN constraints THEN "ValueError"
    ELSE IF c.state < constraints[c.current_coordinate_system] THEN "CalibrationError"
    ELSE "ok"

\* the wrapper of assert_min_state_by_coordinate_system: the exception it
\* raises, "ok" when it calls the function
AssertMinStateByCoordinateSystem(c, constraints) ==
    IF c.current_coordinate_system = "None" THEN "CalibrationError"
    ELSE IF c.current_coordinate_system \notin DOMAIN constraints THEN "ValueError"
    ELSE IF c.state < constraints[c.current_coordinate_system] THEN "CalibrationError"
    ELSE "ok"

\* the wrapper up to the call of the function: the guard's exception, or
\* one more guarded body entered
Guard(w, k, constraints) ==
    The({ LET guard == AssertMinStateByCoordinateSystem(v.calibrations[k], constraints)
          IN  IF ~Ok(v) THEN v
              ELSE IF guard # "ok" THEN Raise(v, guard)
              ELSE [v EXCEPT !.bodies = @ + 1]
          : v \in {w} })

\* the decorators of position, move_relative and move_absolute
PositionConstraints ==
    [cs \in {"StageCoordinate", "ChipCoordinate"} |->
        IF cs = "StageCoordinate" THEN CONNECTED ELSE SINGLE_POINT_FIXED]
MoveRelativeConstraints ==
    [cs \in {"StageCoordinate", "ChipCoordinate"} |->
        IF cs = "StageCoordinate" THEN CONNECTED ELSE COORDINATE_SYSTEM_FIXED]
MoveAbsoluteConstraints ==
    [cs \in {"StageCoordinate", "ChipCoordinate"} |->
        IF cs = "StageCoordinate" THEN CONNECTED ELSE SINGLE_POINT_FIXED]

\* a transform's result, or its RuntimeError / ValueError
ReturnOrRaise(w, result, exception) ==
    IF IsNone(result) THEN Raise(w, exception) ELSE Return(w, result)

\* faulty variant: the single-point transform is used whenever it exists
Position_SinglePointPreferred(w, k) ==
    The({ LET c == v.calibrations[k]
              stage_position == v.stages[c.stage].position
          IN  IF ~Ok(v) THEN v
              ELSE IF c.current_coordinate_system = "StageCoordinate"
              THEN Return(v, Some(stage_position))
              ELSE IF c.state >= SINGLE_POINT_FIXED
              THEN ReturnOrRaise(v, SPStageToChip(c.single_point_transformation,
                                                  c.axes_rotation, stage_position),
                                 "RuntimeError")
              ELSE Return(v, None)
          : v \in {Guard(w, k, PositionConstraints)} })

\* Calibration.position
Position(w, k) ==
    The({ LET c == v.calibrations[k]
              stage_position == v.stages[c.stage].position
          IN  IF ~Ok(v) THEN v
              ELSE IF c.current_coordinate_system = "StageCoordinate"
              THEN Return(v, Some(stage_position))
              ELSE IF c.state = FULLY_CALIBRATED
              THEN ReturnOrRaise(v, KabschStageToChip(c.full_transformation,
                                                      stage_position), "RuntimeError")
              ELSE IF c.state = SINGLE_POINT_FIXED
              THEN ReturnOrRaise(v, SPStageToChip(c.single_point_transformation,
                                                  c.axes_rotation, stage_position),
                                 "RuntimeError")
              ELSE Return(v, None)
          : v \in {Guard(w, k, PositionConstraints)} })

\* faulty variant: a fully calibrated chip-frame step goes through the
\* Kabsch transform
MoveRelative_ThroughKabsch(w, k, relative_difference, type) ==
    The({ LET c == v.calibrations[k]
              rotated == IF c.state = FULLY_CALIBRATED
                         THEN KabschChipToStage(c.full_transformation,
                                                relative_difference)
                         ELSE RotateChipToStage(c.axes_rotation, relative_difference)
          IN  IF ~Ok(v) THEN v
              ELSE IF c.current_coordinate_system = "StageCoordinate"
              THEN IF type \notin {"Coordinate", "StageCoordinate"}
                   THEN Raise(v, "AssertionError")
                   ELSE StageCommand(v, c.stage, "move_relative", relative_difference)
              ELSE IF type \notin {"Coordinate", "ChipCoordinate"}
              THEN Raise(v, "AssertionError")
              ELSE IF IsNone(rotated) THEN Raise(v, "ValueError")
              ELSE StageCommand(v, c.stage, "move_relative", Get(rotated))
          : v \in {Guard(w, k, MoveRelativeConstraints)} })

\* Calibration.move_relative; type is the class of the argument
MoveRelative(w, k, relative_difference, type) ==
    The({ LET c == v.calibrations[k]
              rotated == RotateChipToStage(c.axes_rotation, relative_difference)
          IN  IF ~Ok(v) THEN v
              ELSE IF c.current_coordinate_system = "StageCoordinate"
              THEN IF type \notin {"Coordinate", "StageCoordinate"}
                   THEN Raise(v, "AssertionError")
                   ELSE StageCommand(v, c.stage, "move_relative", relative_difference)
              ELSE IF type \notin {"Coordinate", "ChipCoordinate"}
              THEN Raise(v, "AssertionError")
              ELSE IF IsNone(rotated) THEN Raise(v, "ValueError")
              ELSE StageCommand(v, c.stage, "move_relative", Get(rotated))
          : v \in {Guard(w, k, MoveRelativeConstraints)} })

\* Calibration.move_absolute.  In the chip frame at SINGLE_POINT_FIXED line
\* 340 compares (==) the unassigned local stage_coordinate instead of
\* assigning it: UnboundLocalError before the single-point transform or the
\* stage is called.
MoveAbsolute(w, k, coordinate, type) ==
    The({ LET c == v.calibrations[k]
              stage_coordinate == KabschChipToStage(c.full_transformation, coordinate)
          IN  IF ~Ok(v) THEN v
              ELSE IF c.current_coordinate_system = "StageCoordinate"
              THEN IF type \notin {"Coordinate", "StageCoordinate"}
                   THEN Raise(v, "AssertionError")
                   ELSE StageCommand(v, c.stage, "move_absolute", coordinate)
              ELSE IF type \notin {"Coordinate", "ChipCoordinate"}
              THEN Raise(v, "AssertionError")
              ELSE IF c.state = FULLY_CALIBRATED
              THEN IF IsNone(stage_coordinate) THEN Raise(v, "RuntimeError")
                   ELSE StageCommand(v, c.stage, "move_absolute", Get(stage_coordinate))
              ELSE Raise(v, "UnboundLocalError")
          : v \in {Guard(w, k, MoveAbsoluteConstraints)} })

\* the wiggle_difference array: the distance on the wiggled axis
WiggleDifference(wiggle_axis, wiggle_distance) ==
    [i \in 1..3 |-> IF i = wiggle_axis + 1 THEN wiggle_distance ELSE 0]

\* faulty variant: the second move repeats the first
Wiggled_ForthTwice(w, k, wiggle_axis, wiggle_distance, wiggle_speed) ==
    LET s == w.calibrations[k].stage
        wiggle_difference == WiggleDifference(wiggle_axis, wiggle_distance)
        start == [w EXCEPT !.locals = [current_speed_xy |-> w.stages[s].speed_xy,
                                       current_speed_z |-> w.stages[s].speed_z]]
    IN  The({ IF ~Ok(fast) THEN fast
              ELSE LeaveCoordinateSystem(
                       MoveRelative(
                           MoveRelative(EnterCoordinateSystem(fast, k, "ChipCoordinate"),
                                        k, wiggle_difference, "ChipCoordinate"),
                           k, wiggle_difference, "ChipCoordinate"),
                       k)
              : fast \in {StageCommand(StageCommand(start, s, "set_speed_xy",
                                                    <<wiggle_speed>>),
                                       s, "set_speed_z", <<wiggle_speed>>)} })

\* Calibration.wiggle_axis up to the end of the with-block: the speeds are
\* read and set, the axis is moved forth and back in the chip frame
Wiggled(w, k, wiggle_axis, wiggle_distance, wiggle_speed) ==
    LET s == w.calibrations[k].stage
        wiggle_difference == WiggleDifference(wiggle_axis, wiggle_distance)
        start == [w EXCEPT !.locals = [current_speed_xy |-> w.stages[s].speed_xy,
                                       current_speed_z |-> w.stages[s].speed_z]]
    IN  The({ IF ~Ok(fast) THEN fast
              ELSE LeaveCoordinateSystem(
                       MoveRelative(
                           MoveRelative(EnterCoordinateSystem(fast, k, "ChipCoordinate"),
                                        k, wiggle_difference, "ChipCoordinate"),
                           k, VNeg(wiggle_difference), "ChipCoordinate"),
                       k)
              : fast \in {StageCommand(StageCommand(start, s, "set_speed_xy",
                                                    <<wiggle_speed>>),
                                       s, "set_speed_z", <<wiggle_speed>>)} })

\* Calibration.wiggle_axis: the speeds are set back by the statements after
\* the with-block, which an exception of the block passes by
WiggleAxis(w, k, wiggle_axis, wiggle_distance, wiggle_speed) ==
    LET s == w.calibrations[k].stage
    IN  The({ StageCommand(
                  StageCommand(v, s, "set_speed_xy", <<v.locals.current_speed_xy>>),
                  s, "set_speed_z", <<v.locals.current_speed_z>>)
              : v \in {Wiggled(w, k, wiggle_axis, wiggle_distance, wiggle_speed)} })

(***************************************************************************)
(* MoverNew: the two-stage moves.                                          *)
(***************************************************************************)
\* has_connected_stages: some registered stage has an open connection
HasConnectedStages(w) ==
    \E k \in DOMAIN w.calibrations : w.stages[w.calibrations[k].stage].connected

\* left_calibration, right_calibration: _get_calibration(orientation=...),
\* None when no stage has the orientation
CalibrationByOrientation(w, orientation) ==
    LET keys == {k \in DOMAIN w.calibrations : k[1] = orientation}
    IN  IF keys = {} THEN None ELSE Some(CHOOSE k \in keys : TRUE)

SetCoordinateSystems(w, coordinate_system) ==
    [w EXCEPT !.calibrations =
        [k \in DOMAIN w.calibrations |->
            [w.calibrations[k] EXCEPT !.current_coordinate_system = coordinate_system]]]

\* MoverNew.in_coordinate_system after the yield: the clearing loop; there
\* is no try/finally, so an exception of the body passes it by
MoverLeaveCoordinateSystem(w) ==
    The({ IF Ok(v) THEN SetCoordinateSystems(v, "None") ELSE v : v \in {w} })

\* faulty variant: the clearance is not part of the comparison
FarEnoughApart_NoClearance(left_x, right_x) == left_x < right_x

\* left_x < right_x - MIN_FIBER_DISTANCE, in tenths
FarEnoughApart(left_x, right_x) ==
    10 * left_x < 10 * right_x - MIN_FIBER_DISTANCE_x10

\* faulty variant: the order follows the right stage
LeftMovesFirst_ByRight(delta_l, delta_r) == delta_r < 0

\* faulty variant: the left stage is always commanded first
LeftMovesFirst_Always(delta_l, delta_r) == TRUE

\* the four cases on the signs of the two displacements: TRUE when the left
\* stage is commanded first
LeftMovesFirst(delta_l, delta_r) ==
    IF delta_l < 0 /\ delta_r < 0 THEN TRUE
    ELSE IF delta_l < 0 /\ delta_r >= 0 THEN TRUE
    ELSE IF delta_l >= 0 /\ delta_r < 0 THEN FALSE
    ELSE FALSE

\* faulty variant: a stage that does not move belongs to no case
SignCase_StrictlyPositive(delta_l, delta_r) ==
    IF delta_l < 0 /\ delta_r < 0 THEN "left_first"
    ELSE IF delta_l < 0 /\ delta_r >= 0 THEN "apart"
    ELSE IF delta_l > 0 /\ delta_r < 0 THEN "towards"
    ELSE IF delta_l > 0 /\ delta_r > 0 THEN "right_first"
    ELSE "else"

\* the if/elif chain on the signs of the two displacements: the branch that
\* is taken, "else" for the final branch that raises AssertionError
SignCase(delta_l, delta_r) ==
    IF delta_l < 0 /\ delta_r < 0 THEN "left_first"
    ELSE IF delta_l < 0 /\ delta_r >= 0 THEN "apart"
    ELSE IF delta_l >= 0 /\ delta_r < 0 THEN "towards"
    ELSE IF delta_l >= 0 /\ delta_r >= 0 THEN "right_first"
    ELSE "else"

\* self.<orientation>_calibration.position; None has no attribute position
PositionByOrientation(w, orientation) ==
    The({ LET k == CalibrationByOrientation(v, orientation)
          IN  IF ~Ok(v) THEN v
              ELSE IF IsNone(k) THEN Raise(v, "AttributeError")
              ELSE Position(v, Get(k))
          : v \in {w} })

\* left_position and right_position, read in this order
StartPositions(w) ==
    The({ The({ IF ~Ok(r) THEN r
                ELSE [r EXCEPT !.locals = [left_position |-> Get(l.ret),
                                           right_position |-> Get(r.ret)]]
                : r \in {PositionByOrientation(l, "RIGHT")} })
          : l \in {PositionByOrientation(w, "LEFT")} })

\* the body of the with-block of MoverNew.move_relative(left, right); top
\* and bottom are not given
MoverMoveRelativeBody(w, left, right) ==
    The({ LET x0l == p.locals.left_position[1]
              x0r == p.locals.right_position[1]
              l == Get(CalibrationByOrientation(p, "LEFT"))
              r == Get(CalibrationByOrientation(p, "RIGHT"))
          IN  IF ~Ok(p) THEN p
              ELSE IF ~FarEnoughApart(x0l, x0r) THEN Raise(p, "AssertionError")
              ELSE IF ~FarEnoughApart(x0l + left[1], x0r + right[1])
              THEN Raise(p, "AssertionError")
              ELSE IF SignCase(left[1], right[1]) = "else"
              THEN Raise(p, "AssertionError")
              ELSE IF LeftMovesFirst(left[1], right[1])
              THEN MoveRelative(MoveRelative(p, l, left, "ChipCoordinate"),
                                r, right, "ChipCoordinate")
              ELSE MoveRelative(MoveRelative(p, r, right, "ChipCoordinate"),
                                l, left, "ChipCoordinate")
          : p \in {StartPositions(w)} })

\* MoverNew.move_relative
MoverMoveRelative(w, left, right) ==
    IF ~HasConnectedStages(w) THEN Raise(w, "MoverError")
    ELSE MoverLeaveCoordinateSystem(
             MoverMoveRelativeBody(SetCoordinateSystems(w, "ChipCoordinate"),
                                   left, right))

\* faulty variant: the start positions are compared only when both stages
\* have a target
MoverMoveAbsoluteBody_SingleUnchecked(w, left, right) ==
    The({ LET x0l == p.locals.left_position[1]
              x0r == p.locals.right_position[1]
              x1l == Get(left)[1]
              x1r == Get(right)[1]
              l == Get(CalibrationByOrientation(p, "LEFT"))
              r == Get(CalibrationByOrientation(p, "RIGHT"))
          IN  IF ~Ok(p) THEN p
              ELSE IF ~IsNone(left) /\ IsNone(right)
              THEN MoveAbsolute(p, l, Get(left), "ChipCoordinate")
              ELSE IF ~IsNone(right) /\ IsNone(left)
              THEN MoveAbsolute(p, r, Get(right), "ChipCoordinate")
              ELSE IF ~FarEnoughApart(x0l, x0r) THEN Raise(p, "AssertionError")
              ELSE IF ~IsNone(right) /\ ~IsNone(left)
              THEN IF ~FarEnoughApart(x1l, x1r) THEN Raise(p, "AssertionError")
                   ELSE IF LeftMovesFirst(x1l - x0l, x1r - x0r)
                   THEN MoveAbsolute(MoveAbsolute(p, l, Get(left), "ChipCoordinate"),
                                     r, Get(right), "ChipCoordinate")
                   ELSE MoveAbsolute(MoveAbsolute(p, r, Get(right), "ChipCoordinate"),
                                     l, Get(left), "ChipCoordinate")
              ELSE p
          : p \in {StartPositions(w)} })

\* the body of the with-block of MoverNew.move_absolute(movement); left and
\* right are movement.get(LEFT) and movement.get(RIGHT), None when the
\* orientation is not a key
MoverMoveAbsoluteBody(w, left, right) ==
    The({ LET x0l == p.locals.left_position[1]
              x0r == p.locals.right_position[1]
              x1l == Get(left)[1]
              x1r == Get(right)[1]
              l == Get(CalibrationByOrientation(p, "LEFT"))
              r == Get(CalibrationByOrientation(p, "RIGHT"))
          IN  IF ~Ok(p) THEN p
              ELSE IF ~FarEnoughApart(x0l, x0r) THEN Raise(p, "AssertionError")
              ELSE IF ~IsNone(left) /\ IsNone(right)
              THEN MoveAbsolute(p, l, Get(left), "ChipCoordinate")
              ELSE IF ~IsNone(right) /\ IsNone(left)
              THEN MoveAbsolute(p, r, Get(right), "ChipCoordinate")
              ELSE IF ~IsNone(right) /\ ~IsNone(left)
              THEN IF ~FarEnoughApart(x1l, x1r) THEN Raise(p, "AssertionError")
                   ELSE IF SignCase(x1l - x0l, x1r - x0r) = "else"
                   THEN Raise(p, "AssertionError")
                   ELSE IF LeftMovesFirst(x1l - x0l, x1r - x0r)
                   THEN MoveAbsolute(MoveAbsolute(p, l, Get(left), "ChipCoordinate"),
                                     r, Get(right), "ChipCoordinate")
                   ELSE MoveAbsolute(MoveAbsolute(p, r, Get(right), "ChipCoordinate"),
                                     l, Get(left), "ChipCoordinate")
              ELSE p
          : p \in {StartPositions(w)} })

\* MoverNew.move_absolute
MoverMoveAbsolute(w, left, right) ==
    IF ~HasConnectedStages(w) THEN Raise(w, "MoverError")
    ELSE MoverLeaveCoordinateSystem(
             MoverMoveAbsoluteBody(SetCoordinateSystems(w, "ChipCoordinate"),
                                   left, right))

(***************************************************************************)
(* Inputs.                                                                 *)
(***************************************************************************)
LEFT_INPUT == <<"LEFT", "INPUT">>
RIGHT_OUTPUT == <<"RIGHT", "OUTPUT">>

\* coordinates of the model are multiples of Step, a multiple of every number
\* of pairings up to six, so that the centroid of the pairings is integral;
\* one Step is less and two Steps are more than the fibre clearance
Step == 2 * 3 * 4 * 5
Devices == 1..NumDevices
\* chip coordinates of the devices (z = 0), no three on a line
DeviceChip(d) ==
    CASE d = 1 -> <<0, 0, 0>>
      [] d = 2 -> <<Step, 0, 0>>
      [] d = 3 -> <<0, Step, 0>>
      [] d = 4 -> <<Step, Step, 0>>
      [] OTHER -> <<2 * Step, 3 * Step, 0>>

\* how each stage is mounted: the stage coordinate at which its fibre is
\* above chip coordinate c is MountRotation . c + MountOffset
RotZ90 == <<<<0, -1, 0>>, <<1, 0, 0>>, <<0, 0, 1>>>>
MountRotation(s) == IF s = "s1" THEN RotZ90 ELSE Identity
MountOffset(s) == IF s = "s1" THEN <<Step, 0, 0>> ELSE <<0, -Step, 0>>
Mount(s, c) == VAdd(Dot(MountRotation(s), c), MountOffset(s))

\* the pairings a user can record for the stage: a device with the stage
\* coordinate measured above it, and pairings with a missing field
MeasuredPairing(s, d) ==
    CoordinatePairing(Some(Mount(s, DeviceChip(d))), Some(d), Some(DeviceChip(d)))
IncompletePairings(s) ==
    { CoordinatePairing(None, Some(1), Some(DeviceChip(1))),
      CoordinatePairing(Some(Mount(s, DeviceChip(1))), Some(1), None),
      CoordinatePairing(Some(Mount(s, DeviceChip(1))), None, Some(DeviceChip(1))) }
Pairings(s) == {MeasuredPairing(s, d) : d \in Devices} \cup IncompletePairings(s)
\* the single point is fixed at the first device
SinglePointPairings(s) == {MeasuredPairing(s, 1)} \cup IncompletePairings(s)

\* the axis assignments the user makes: chip X to stage X or Y, chip Y to
\* stage Y or to stage X reversed
AxisAssignments ==
    { <<X, POSITIVE, X>>, <<X, POSITIVE, Y>>, <<Y, POSITIVE, Y>>, <<Y, NEGATIVE, X>> }

NewStage ==
    [connected |-> FALSE, status |-> "none", position |-> <<0, 0, 0>>,
     speed_xy |-> 200, speed_z |-> 20, acceleration_xy |-> 0]

\* MoverNew.__init__
NewMover ==
    [port_by_orientation |-> <<>>,
     speed_xy |-> None, speed_z |-> None, acceleration_xy |-> None,
     z_lift |-> DEFAULT_SPEED_Z, stages_lifted |-> FALSE]

\* the mover after add_stage_calibration(stage, k[1], k[2]) for each key k
MoverOf(keys) ==
    [NewMover EXCEPT !.port_by_orientation =
        [o \in {k[1] : k \in keys} |-> (CHOOSE k \in keys : k[1] = o)[2]]]

\* MovementController.__init__ and StageCalibrationController.__init__, one
\* of the latter for each calibration; wiggling holds the wiggles that have
\* been started and have not returned, as <<entry point, key, axis>>
NewControllers(keys) ==
    [movement |-> [performing_wiggle |-> FALSE],
     stage_calibration |-> [k \in keys |-> [performing_wiggle |-> FALSE]],
     wiggling |-> {}]

(***************************************************************************)
(* An action runs one operation in the world of the current state and      *)
(* stores the world it leaves; last describes the operation that ran.      *)
(***************************************************************************)
World(failAt) ==
    [calibrations |-> calibrations, stages |-> stages, mover |-> mover,
     calls |-> <<>>, outcome |-> "ok", ret |-> None, failAt |-> failAt,
     bodies |-> 0, locals |-> <<>>]

Commit(w, op, key, args) ==
    /\ calibrations' = w.calibrations
    /\ stages' = w.stages
    /\ mover' = w.mover
    /\ last' = [op |-> op, key |-> key, args |-> args, outcome |-> w.outcome,
                calls |-> w.calls, ret |-> w.ret, bodies |-> w.bodies,
                locals |-> w.locals]

\* an operation of the movement core leaves the controllers as they are
Store(w, op, key, args) ==
    /\ Commit(w, op, key, args)
    /\ UNCHANGED controllers

NoOperation ==
    [op |-> "init", key |-> <<>>, args |-> <<>>, outcome |-> "ok",
     calls |-> <<>>, ret |-> None, bodies |-> 0, locals |-> <<>>]

(***************************************************************************)
(* Spec: the state machine of one calibration, from its registration.      *)
(***************************************************************************)
Init ==
    /\ stages = [s \in {"s1"} |-> NewStage]
    /\ calibrations = [k \in {LEFT_INPUT} |-> NewCalibration("s1", FALSE, "LEFT", "INPUT")]
    /\ mover = MoverOf({LEFT_INPUT})
    /\ controllers = NewControllers({LEFT_INPUT})
    /\ last = NoOperation

Registered == DOMAIN calibrations

ConnectToStageCall ==
    \E k \in Registered :
        Store(ConnectToStage(World(0), k), "connect_to_stage", k, <<>>)

DisconnectFromStageCall ==
    \E k \in Registered :
        Store(DisconnectFromStage(World(0), k), "disconnect_from_stage", k, <<>>)

\* the stage stops or resumes answering; a disconnected stage never answers
StageStatusChange ==
    \E s \in DOMAIN stages, status \in {"ok", "none", "error"} :
        /\ status = "ok" => stages[s].connected
        /\ status # stages[s].status
        /\ Store([World(0) EXCEPT !.stages[s].status = status],
                 "stage_status", <<>>, <<>>)

DetermineStateCall ==
    \E k \in Registered, skip_connection \in BOOLEAN :
        Store(DetermineState(World(0), k, skip_connection), "determine_state", k,
              [skip_connection |-> skip_connection])

UpdateAxesRotationCall ==
    \E k \in Registered, a \in AxisAssignments :
        Store(UpdateAxesRotation(World(0), k, a[1], a[2], a[3]),
              "update_axes_rotation", k, <<>>)

UpdateSinglePointTransformationCall ==
    \E k \in Registered :
        \E pairing \in SinglePointPairings(calibrations[k].stage) :
            Store(UpdateSinglePointTransformation(World(0), k, pairing),
                  "update_single_point_transformation", k, <<>>)

UpdateFullTransformationCall ==
    \E k \in Registered :
        \E pairing \in Pairings(calibrations[k].stage) :
            Store(UpdateFullTransformation(World(0), k, pairing),
                  "update_full_transformation", k, <<>>)

CalibrationResetCall ==
    \E k \in Registered :
        Store(CalibrationReset(World(0), k), "reset", k, <<>>)

Next ==
    \/ ConnectToStageCall
    \/ DisconnectFromStageCall
    \/ StageStatusChange
    \/ DetermineStateCall
    \/ UpdateAxesRotationCall
    \/ UpdateSinglePointTransformationCall
    \/ UpdateFullTransformationCall
    \/ CalibrationResetCall

Spec == Init /\ [][Next]_vars

(***************************************************************************)
(* Properties of the calibration state machine (Spec).                     *)
(***************************************************************************)
AxesValidOf(k) == AxesIsValid(calibrations[k].axes_rotation)
SinglePointValidOf(k) ==
    SPIsValid(calibrations[k].single_point_transformation,
              calibrations[k].axes_rotation)
FullValidOf(k) == KabschIsValid(calibrations[k].full_transformation)
RespondsOf(k) == stages[calibrations[k].stage].status = "ok"

\* C4: after determine_state() the state is the highest level whose whole
\* chain of probes holds, whatever it was before: NOT_CONFIGURED when the
\* stage does not answer, else CONNECTED when the axes rotation is invalid,
\* else COORDINATE_SYSTEM_FIXED when the single point is invalid, else
\* SINGLE_POINT_FIXED when the Kabsch rotation is invalid, else
\* FULLY_CALIBRATED.
C4_DetermineStateFromProbes ==
    \A k \in Registered :
        (last.op = "determine_state" /\ last.key = k /\ ~last.args.skip_connection) =>
            /\ ~RespondsOf(k) => calibrations[k].state = NOT_CONFIGURED
            /\ (RespondsOf(k) /\ ~AxesValidOf(k)) => calibrations[k].state = CONNECTED
            /\ (RespondsOf(k) /\ AxesValidOf(k) /\ ~SinglePointValidOf(k)) =>
                    calibrations[k].state = COORDINATE_SYSTEM_FIXED
            /\ (RespondsOf(k) /\ AxesValidOf(k) /\ SinglePointValidOf(k) /\ ~FullValidOf(k)) =>
                    calibrations[k].state = SINGLE_POINT_FIXED
            /\ (RespondsOf(k) /\ AxesValidOf(k) /\ SinglePointValidOf(k) /\ FullValidOf(k)) =>
                    calibrations[k].state = FULLY_CALIBRATED

\* determine_state() has run on a responsive stage with a valid Kabsch fit
\* but no valid single point
C4_Witness ==
    /\ last.op = "determine_state" /\ ~last.args.skip_connection
    /\ RespondsOf(LEFT_INPUT) /\ AxesValidOf(LEFT_INPUT)
    /\ ~SinglePointValidOf(LEFT_INPUT) /\ FullValidOf(LEFT_INPUT)
    /\ calibrations[LEFT_INPUT].state = COORDINATE_SYSTEM_FIXED

GeometricUpdates ==
    {"update_axes_rotation", "update_single_point_transformation",
     "update_full_transformation"}

\* C5: after every successful geometric update the state is the level the
\* validity of the three transforms determines: CONNECTED with invalid axes,
\* COORDINATE_SYSTEM_FIXED with valid axes and no valid single point,
\* SINGLE_POINT_FIXED with both valid and an invalid Kabsch rotation,
\* FULLY_CALIBRATED with all three valid.
C5_StateAfterUpdate ==
    \A k \in Registered :
        (last.op \in GeometricUpdates /\ last.key = k /\ last.outcome = "ok") =>
            /\ ~AxesValidOf(k) => calibrations[k].state = CONNECTED
            /\ (AxesValidOf(k) /\ ~SinglePointValidOf(k)) =>
                    calibrations[k].state = COORDINATE_SYSTEM_FIXED
            /\ (AxesValidOf(k) /\ SinglePointValidOf(k) /\ ~FullValidOf(k)) =>
                    calibrations[k].state = SINGLE_POINT_FIXED
            /\ (AxesValidOf(k) /\ SinglePointValidOf(k) /\ FullValidOf(k)) =>
                    calibrations[k].state = FULLY_CALIBRATED

\* an axes update has made the rotation valid again and the state has come
\* back to FULLY_CALIBRATED
C5_Witness ==
    /\ last.op = "update_axes_rotation" /\ last.outcome = "ok"
    /\ calibrations[LEFT_INPUT].axes_rotation # Identity
    /\ calibrations[LEFT_INPUT].state = FULLY_CALIBRATED

(***************************************************************************)
(* Prepared calibrations: built by the operations above from the           *)
(* registration of the stages.                                             *)
(***************************************************************************)
FreshWorld(keys) ==
    [calibrations |-> [k \in keys |->
                          NewCalibration(IF k = LEFT_INPUT THEN "s1" ELSE "s2",
                                         FALSE, k[1], k[2])],
     stages |-> [s \in {IF k = LEFT_INPUT THEN "s1" ELSE "s2" : k \in keys} |-> NewStage],
     mover |-> MoverOf(keys),
     calls |-> <<>>, outcome |-> "ok", ret |-> None, failAt |-> 0,
     bodies |-> 0, locals |-> <<>>]

\* the axes assigned as the stage is mounted: for s1 chip X on stage Y and
\* chip Y on stage X reversed; s2 is mounted along the chip axes
AxesAsMounted(w, k) ==
    IF w.calibrations[k].stage = "s1"
    THEN UpdateAxesRotation(UpdateAxesRotation(w, k, X, POSITIVE, Y), k, Y, NEGATIVE, X)
    ELSE UpdateAxesRotation(w, k, X, POSITIVE, X)

SinglePointFixed(w, k) ==
    UpdateSinglePointTransformation(w, k, MeasuredPairing(w.calibrations[k].stage, 1))

FullyPaired(w, k) ==
    LET s == w.calibrations[k].stage
    IN  UpdateFullTransformation(
            UpdateFullTransformation(
                UpdateFullTransformation(w, k, MeasuredPairing(s, 1)),
                k, MeasuredPairing(s, 2)),
            k, MeasuredPairing(s, 3))

Levels == {"registered", "connected", "axes", "single", "full"}

\* the calibration k brought to a level: registered (NOT_CONFIGURED),
\* connected with a half-assigned rotation (CONNECTED), axes
\* (COORDINATE_SYSTEM_FIXED), single (SINGLE_POINT_FIXED), full
\* (FULLY_CALIBRATED)
Prepared(w, k, level) ==
    LET connected == ConnectToStage(w, k)
        mounted == AxesAsMounted(connected, k)
    IN  CASE level = "registered" -> w
          [] level = "connected" -> UpdateAxesRotation(connected, k, X, POSITIVE, Y)
          [] level = "axes" -> mounted
          [] level = "single" -> SinglePointFixed(mounted, k)
          [] level = "full" -> FullyPaired(SinglePointFixed(mounted, k), k)

InRange(v, steps) == \A i \in 1..3 : Abs(v[i]) <= steps * Step
StagesInRange(w, steps) ==
    \A s \in DOMAIN w.stages : InRange(w.stages[s].position, steps)

\* the driver command that fails: none (0) or the n-th of the operation
FailAt(commands) == 0..commands

(***************************************************************************)
(* SpecOps: the guarded operations and the wiggle of one calibration, from *)
(* each level of calibration.                                              *)
(***************************************************************************)
InitOps ==
    \E level \in Levels :
        LET w == Prepared(FreshWorld({LEFT_INPUT}), LEFT_INPUT, level)
        IN  /\ calibrations = w.calibrations
            /\ stages = w.stages
            /\ mover = w.mover
            /\ controllers = NewControllers(DOMAIN w.calibrations)
            /\ last = NoOperation

Scopes == CoordinateSystems \cup {"None"}
CoordinateTypes == {"ChipCoordinate", "StageCoordinate"}
\* arguments of the moves
Differences == {<<Step, 0, 0>>, <<0, -Step, 0>>}
Targets == {<<0, 0, 0>>, <<0, Step, 0>>}

\* with calibration.in_coordinate_system(scope): before and after the
\* operation; "None" is a call outside any scope
Entered(w, k, scope) ==
    IF scope = "None" THEN w ELSE EnterCoordinateSystem(w, k, scope)
Left(w, k, scope) ==
    IF scope = "None" THEN w ELSE LeaveCoordinateSystem(w, k)

PositionCall ==
    \E k \in Registered, scope \in Scopes :
        \E w \in {Left(Position(Entered(World(0), k, scope), k), k, scope)} :
            Store(w, "position", k, [scope |-> scope])

MoveRelativeCall ==
    \E k \in Registered, scope \in Scopes, d \in Differences,
       type \in CoordinateTypes, failAt \in FailAt(1) :
        \E w \in {Left(MoveRelative(Entered(World(failAt), k, scope), k, d, type),
                      k, scope)} :
            /\ StagesInRange(w, MaxTravel)
            /\ Store(w, "move_relative", k,
                     [scope |-> scope, coordinate |-> d, type |-> type])

MoveAbsoluteCall ==
    \E k \in Registered, scope \in Scopes, t \in Targets,
       type \in CoordinateTypes, failAt \in FailAt(1) :
        \E w \in {Left(MoveAbsolute(Entered(World(failAt), k, scope), k, t, type),
                      k, scope)} :
            /\ StagesInRange(w, MaxTravel)
            /\ Store(w, "move_absolute", k,
                     [scope |-> scope, coordinate |-> t, type |-> type])

\* wiggle_axis issues six driver commands: two speeds, two moves, two speeds
WiggleAxisCall ==
    \E k \in Registered, axis \in Axis, failAt \in FailAt(2 + 2 + 2) :
        \E w \in {WiggleAxis(World(failAt), k, axis, Step, WIGGLE_SPEED)} :
            /\ StagesInRange(w, MaxTravel)
            /\ Store(w, "wiggle_axis", k, [axis |-> axis])

NextOps ==
    \/ PositionCall
    \/ MoveRelativeCall
    \/ MoveAbsoluteCall
    \/ WiggleAxisCall

SpecOps == InitOps /\ [][NextOps]_vars

(***************************************************************************)
(* Properties of the guarded operations and the wiggle (SpecOps).          *)
(***************************************************************************)
ConstraintsOf(op) ==
    CASE op = "position" -> PositionConstraints
      [] op = "move_relative" -> MoveRelativeConstraints
      [] op = "move_absolute" -> MoveAbsoluteConstraints

GuardedOperations == {"position", "move_relative", "move_absolute"}

\* C6: a call of position, move_relative or move_absolute in the stage or
\* the chip frame with a state below the minimum of the operation for that
\* frame raises CalibrationError, runs no guarded body and sends no command
\* to the stage; with a state at or above the minimum the body runs exactly
\* once.
C6_GuardedOperations ==
    \A k \in Registered :
        (/\ last.op \in GuardedOperations /\ last.key = k
         /\ last.args.scope \in {"StageCoordinate", "ChipCoordinate"}) =>
            IF calibrations[k].state < ConstraintsOf(last.op)[last.args.scope]
            THEN /\ last.outcome = "CalibrationError"
                 /\ last.bodies = 0
                 /\ last.calls = <<>>
            ELSE /\ last.bodies = 1
                 /\ last.outcome # "CalibrationError"

\* move_relative in the chip frame has run its body at exactly the minimum
\* state and has moved the stage
C6_Witness ==
    /\ last.op = "move_relative" /\ last.args.scope = "ChipCoordinate"
    /\ calibrations[LEFT_INPUT].state = COORDINATE_SYSTEM_FIXED
    /\ last.bodies = 1 /\ last.outcome = "ok" /\ Len(last.calls) = 1

\* C7: move_absolute with a chip coordinate in the chip frame raises
\* CalibrationError at COORDINATE_SYSTEM_FIXED; at SINGLE_POINT_FIXED the
\* driver's move_absolute is called exactly once, with the stage coordinate
\* single_point_transformation.chip_to_stage(target), and nothing but the
\* stage can fail.
C7_MoveAbsoluteChipFrame ==
    \A k \in Registered :
        (/\ last.op = "move_absolute" /\ last.key = k
         /\ last.args.scope = "ChipCoordinate"
         /\ last.args.type = "ChipCoordinate") =>
            /\ calibrations[k].state = COORDINATE_SYSTEM_FIXED =>
                    last.outcome = "CalibrationError"
            /\ calibrations[k].state = SINGLE_POINT_FIXED =>
                    /\ last.outcome \in {"ok", "StageError"}
                    /\ last.calls =
                         << [stage |-> calibrations[k].stage, cmd |-> "move_absolute",
                             arg |-> Get(SPChipToStage(
                                        calibrations[k].single_point_transformation,
                                        calibrations[k].axes_rotation,
                                        last.args.coordinate))] >>

\* C10: after wiggle_axis has returned or raised (a guard error, or a stage
\* move that failed), the xy and z speeds of the stage are the ones it had
\* before the call.
C10_WiggleRestoresSpeeds ==
    \A k \in Registered :
        (/\ last.op = "wiggle_axis" /\ last.key = k
         /\ (last.outcome = "StageError" =>
                last.calls[Len(last.calls)].cmd \in MotionCommands)) =>
            /\ stages[calibrations[k].stage].speed_xy = last.locals.current_speed_xy
            /\ stages[calibrations[k].stage].speed_z = last.locals.current_speed_z

(***************************************************************************)
(* SpecMover: the mover with a left and a right stage, both brought to the *)
(* same level and each moved on its own, in the stage frame, to where its  *)
(* fibre is above a point of the chip's x axis.                            *)
(***************************************************************************)
BothStages == {LEFT_INPUT, RIGHT_OUTPUT}
XSteps == (-MaxSteps)..MaxSteps

\* with calibration.in_coordinate_system(StageCoordinate):
\*     calibration.move_absolute(StageCoordinate(...))
Placed(w, k, chip_coordinate) ==
    LET target == Mount(w.calibrations[k].stage, chip_coordinate)
    IN  LeaveCoordinateSystem(
            MoveAbsolute(EnterCoordinateSystem(w, k, "StageCoordinate"),
                         k, target, "StageCoordinate"),
            k)

MoverLevels == {"registered", "axes", "single", "full"}

InitMover ==
    \E level \in MoverLevels, xl \in XSteps, xr \in XSteps :
        LET prepared == Prepared(Prepared(FreshWorld(BothStages), LEFT_INPUT, level),
                                 RIGHT_OUTPUT, level)
            w == IF level = "registered" THEN prepared
                 ELSE Placed(Placed(prepared, LEFT_INPUT, <<xl * Step, 0, 0>>),
                             RIGHT_OUTPUT, <<xr * Step, 0, 0>>)
        IN  /\ level = "registered" => (xl = 0 /\ xr = 0)
            /\ calibrations = w.calibrations
            /\ stages = w.stages
            /\ mover = w.mover
            /\ controllers = NewControllers(DOMAIN w.calibrations)
            /\ last = NoOperation

\* relative displacements and absolute targets along the chip's x axis
MoverDifferences == {<<x * Step, 0, 0>> : x \in {-1, 0, 1}}
MoverTargets == {None} \cup {Some(<<x * Step, 0, 0>>) : x \in {-1, 0, 1}}

\* a two-stage move issues at most two driver commands
MoverMoveRelativeCall ==
    \E left \in MoverDifferences, right \in MoverDifferences, failAt \in FailAt(2) :
        \E w \in {MoverMoveRelative(World(failAt), left, right)} :
            /\ StagesInRange(w, MaxSteps)
            /\ Store(w, "Mover.move_relative", <<>>, [left |-> left, right |-> right])

MoverMoveAbsoluteCall ==
    \E left \in MoverTargets, right \in MoverTargets, failAt \in FailAt(2) :
        \E w \in {MoverMoveAbsolute(World(failAt), left, right)} :
            /\ StagesInRange(w, MaxSteps)
            /\ Store(w, "Mover.move_absolute", <<>>, [left |-> left, right |-> right])

NextMover ==
    \/ MoverMoveRelativeCall
    \/ MoverMoveAbsoluteCall

SpecMover == InitMover /\ [][NextMover]_vars

(***************************************************************************)
(* Properties of the two-stage moves (SpecMover).                          *)
(***************************************************************************)
MoverMoves == {"Mover.move_relative", "Mover.move_absolute"}

\* the chip coordinate at which the calibration's stage is now, as
\* Calibration.position yields it in the chip frame
ChipPositionOf(k) ==
    LET c == calibrations[k]
        stage_position == stages[c.stage].position
    IN  IF c.state = FULLY_CALIBRATED
        THEN Get(KabschStageToChip(c.full_transformation, stage_position))
        ELSE Get(SPStageToChip(c.single_point_transformation, c.axes_rotation,
                               stage_position))

\* left_x is less than right_x minus MIN_FIBER_DISTANCE (137.5)
Clearance(left_x, right_x) == 10 * left_x < 10 * right_x - MIN_FIBER_DISTANCE_x10

\* C1: whenever Mover.move_absolute or Mover.move_relative returns normally,
\* with a target for the left stage, the right stage or both, the chip-frame
\* x of the left stage is less than the chip-frame x of the right stage minus
\* MIN_FIBER_DISTANCE.
C1_ClearanceAfterMove ==
    (last.op \in MoverMoves /\ last.outcome = "ok") =>
        Clearance(ChipPositionOf(LEFT_INPUT)[1], ChipPositionOf(RIGHT_OUTPUT)[1])

\* both stages have a target: always in move_relative, in move_absolute
\* when the movement has both orientations
BothTargetsGiven ==
    \/ last.op = "Mover.move_relative"
    \/ /\ last.op = "Mover.move_absolute"
       /\ ~IsNone(last.args.left) /\ ~IsNone(last.args.right)

\* the chip-frame x the move started from and the one it was to reach
StartX(side) ==
    IF side = "LEFT" THEN last.locals.left_position[1]
    ELSE last.locals.right_position[1]
TargetX(side) ==
    LET given == IF side = "LEFT" THEN last.args.left ELSE last.args.right
    IN  IF last.op = "Mover.move_relative" THEN StartX(side) + given[1]
        ELSE Get(given)[1]

\* C2: when the start positions of the two stages violate the clearance, or
\* both stages have a target and the targets violate it, the move fails and
\* has sent no motion command to any stage.
C2_RejectedBeforeMotion ==
    (/\ last.op \in MoverMoves /\ last.locals # <<>>
     /\ \/ ~Clearance(StartX("LEFT"), StartX("RIGHT"))
        \/ BothTargetsGiven /\ ~Clearance(TargetX("LEFT"), TargetX("RIGHT"))) =>
        /\ last.outcome # "ok"
        /\ Motions(last.calls) = <<>>

\* a move from a clear start to targets that are too close was rejected
\* without any motion
C2_Witness ==
    /\ last.op = "Mover.move_absolute" /\ last.locals # <<>>
    /\ BothTargetsGiven
    /\ Clearance(StartX("LEFT"), StartX("RIGHT"))
    /\ ~Clearance(TargetX("LEFT"), TargetX("RIGHT"))
    /\ last.outcome = "AssertionError"
    /\ last.calls = <<>>

\* the stages in the order their motion commands were issued
StagesCommanded ==
    LET motions == Motions(last.calls)
    IN  [i \in 1..Len(motions) |-> motions[i].stage]

\* the order the rule prescribes: the left stage first exactly when delta_l
\* is negative
PrescribedOrder ==
    LET left_stage == calibrations[LEFT_INPUT].stage
        right_stage == calibrations[RIGHT_OUTPUT].stage
    IN  IF TargetX("LEFT") - StartX("LEFT") < 0
        THEN <<left_stage, right_stage>>
        ELSE <<right_stage, left_stage>>

IsPrefix(short, long) ==
    /\ Len(short) <= Len(long)
    /\ \A i \in 1..Len(short) : short[i] = long[i]

\* C3: in a move with a target for both stages the stages are commanded in
\* the prescribed order, the left one first exactly when delta_l < 0 and the
\* right one first exactly when delta_l >= 0, whatever the sign of delta_r;
\* no stage is commanded twice, the second only after the first has
\* returned, and a move that returns normally has commanded each stage
\* exactly once.
C3_OrderOfCommands ==
    (last.op \in MoverMoves /\ last.locals # <<>> /\ BothTargetsGiven) =>
        /\ IsPrefix(StagesCommanded, PrescribedOrder)
        /\ last.outcome = "ok" => StagesCommanded = PrescribedOrder

\* the left stage approached (delta_l >= 0), the right stage came closer
\* (delta_r < 0), and the right stage was commanded first
C3_Witness ==
    /\ last.op = "Mover.move_absolute" /\ last.locals # <<>>
    /\ BothTargetsGiven /\ last.outcome = "ok"
    /\ TargetX("LEFT") - StartX("LEFT") > 0
    /\ TargetX("RIGHT") - StartX("RIGHT") < 0
    /\ StagesCommanded = <<calibrations[RIGHT_OUTPUT].stage, calibrations[LEFT_INPUT].stage>>

\* C9: after a scope of in_coordinate_system has been left, of the
\* calibration or of the mover, by completion of its body or by an exception
\* (a guard error, a clearance rejection, a stage failure), the
\* current_coordinate_system of every calibration is None.
C9_ScopeCleared ==
    \A k \in Registered :
        last.op # "init" => calibrations[k].current_coordinate_system = "None"

(***************************************************************************)
(* SpecTransform: the single-point transformation under each of the 48     *)
(* axes rotations.                                                         *)
(***************************************************************************)
\* the three update_axes_rotation calls that assign the rotation m: chip
\* axis c goes to the stage axis r, in the direction m[r][c], where column c
\* of m is not zero
AxesAssigned(w, k, m) ==
    LET StageAxisOf(c) == CHOOSE r \in Axis : m[r + 1][c + 1] # 0
        Assign(v, c) ==
            UpdateAxesRotation(v, k, c, m[StageAxisOf(c) + 1][c + 1], StageAxisOf(c))
    IN  Assign(Assign(Assign(w, X), Y), Z)

InitTransform ==
    \E m \in SignedPermutations :
        LET w == AxesAssigned(ConnectToStage(FreshWorld({LEFT_INPUT}), LEFT_INPUT),
                              LEFT_INPUT, m)
        IN  /\ calibrations = w.calibrations
            /\ stages = w.stages
            /\ mover = w.mover
            /\ controllers = NewControllers(DOMAIN w.calibrations)
            /\ last = NoOperation

\* the coordinates of the pairings that fix the single point
AnchorStageCoordinates == {<<1, 2, 3>>, <<Step, 0, -Step>>}
AnchorChipCoordinates == {<<4, 5, 6>>, <<0, Step, 0>>}

FixSinglePointCall ==
    \E k \in Registered, stage_coordinate \in AnchorStageCoordinates,
       chip_coordinate \in AnchorChipCoordinates :
        Store(UpdateSinglePointTransformation(
                  World(0), k,
                  CoordinatePairing(Some(stage_coordinate), Some(1), Some(chip_coordinate))),
              "update_single_point_transformation", k, <<>>)

\* single_point_transformation.chip_to_stage(chip_coordinate)
ChipToStageCall ==
    \E k \in Registered, chip_coordinate \in AnchorChipCoordinates :
        LET c == calibrations[k]
            result == SPChipToStage(c.single_point_transformation, c.axes_rotation,
                                    chip_coordinate)
        IN  Store(ReturnOrRaise(World(0), result, "RuntimeError"),
                  "chip_to_stage", k, [coordinate |-> chip_coordinate])

\* single_point_transformation.stage_to_chip(stage_coordinate)
StageToChipCall ==
    \E k \in Registered, stage_coordinate \in AnchorStageCoordinates :
        LET c == calibrations[k]
            result == SPStageToChip(c.single_point_transformation, c.axes_rotation,
                                    stage_coordinate)
        IN  Store(ReturnOrRaise(World(0), result, "RuntimeError"),
                  "stage_to_chip", k, [coordinate |-> stage_coordinate])

NextTransform ==
    \/ FixSinglePointCall
    \/ ChipToStageCall
    \/ StageToChipCall

SpecTransform == InitTransform /\ [][NextTransform]_vars

\* C8: once update(pairing) has fixed the single point under a valid axes
\* rotation, chip_to_stage of the pairing's chip coordinate is the pairing's
\* stage coordinate and stage_to_chip of the pairing's stage coordinate is
\* the pairing's chip coordinate.
C8_SinglePointAnchoring ==
    \A k \in Registered :
        LET sp == calibrations[k].single_point_transformation
        IN  (~IsNone(sp.pairing) /\ last.key = k) =>
                /\ (/\ last.op = "chip_to_stage"
                    /\ Some(last.args.coordinate) = Get(sp.pairing).chip_coordinate) =>
                        last.ret = Get(sp.pairing).stage_coordinate
                /\ (/\ last.op = "stage_to_chip"
                    /\ Some(last.args.coordinate) = Get(sp.pairing).stage_coordinate) =>
                        last.ret = Get(sp.pairing).chip_coordinate

(***************************************************************************)
(* The wiggle entry points of the controllers.  A wiggle that has been     *)
(* started holds the flag of its controller until it returns; a request    *)
(* that arrives in between finds the flags as the started wiggles left     *)
(* them.  c is the record of the controllers.                              *)
(***************************************************************************)
\* MovementController.axis_wiggle up to the call of calibration.wiggle_axis:
\* the one flag of the controller is tested, then set
AxisWiggleStart(c, k, axis) ==
    IF c.movement.performing_wiggle
    THEN [controllers |-> c, outcome |-> "AssertionError"]
    ELSE [controllers |-> [c EXCEPT !.movement.performing_wiggle = TRUE,
                                    !.wiggling = @ \cup {<<"MovementController", k, axis>>}],
          outcome |-> "ok"]

\* MovementController.axis_wiggle: the finally block
AxisWiggleEnd(c, k, axis) ==
    [c EXCEPT !.movement.performing_wiggle = FALSE,
              !.wiggling = @ \ {<<"MovementController", k, axis>>}]

\* StageCalibrationController.wiggle_axis up to run_with_wait_window: the
\* flag tested and set is the one of the controller of this calibration
StageCalibrationWiggleStart(c, k, axis) ==
    IF c.stage_calibration[k].performing_wiggle
    THEN [controllers |-> c, outcome |-> "AssertionError"]
    ELSE [controllers |-> [c EXCEPT !.stage_calibration[k].performing_wiggle = TRUE,
                                    !.wiggling = @ \cup {<<"StageCalibrationController", k, axis>>}],
          outcome |-> "ok"]

\* StageCalibrationController.wiggle_axis: the finally block
StageCalibrationWiggleEnd(c, k, axis) ==
    [c EXCEPT !.stage_calibration[k].performing_wiggle = FALSE,
              !.wiggling = @ \ {<<"StageCalibrationController", k, axis>>}]

(***************************************************************************)
(* SpecWiggle: wiggles requested through the two entry points on the two   *)
(* stages of a mover, each request arriving at any time.                   *)
(***************************************************************************)
WiggleLevels == {"connected", "axes"}

InitWiggle ==
    \E level \in WiggleLevels :
        LET w == Prepared(Prepared(FreshWorld(BothStages), LEFT_INPUT, level),
                          RIGHT_OUTPUT, level)
        IN  /\ calibrations = w.calibrations
            /\ stages = w.stages
            /\ mover = w.mover
            /\ controllers = NewControllers(DOMAIN w.calibrations)
            /\ last = NoOperation

\* a wiggle button of the movement wizard is pressed
AxisWiggleRequest ==
    \E k \in Registered, axis \in Axis :
        LET started == AxisWiggleStart(controllers, k, axis)
        IN  /\ controllers' = started.controllers
            /\ Commit(Raise(World(0), started.outcome), "axis_wiggle", k,
                      [axis |-> axis, in_progress |-> controllers.wiggling])

\* calibration.wiggle_axis(axis) of a started wiggle runs and returns
AxisWiggleReturn ==
    \E e \in controllers.wiggling :
        /\ e[1] = "MovementController"
        /\ \E w \in {WiggleAxis(World(0), e[2], e[3], Step, WIGGLE_SPEED)} :
            /\ controllers' = AxisWiggleEnd(controllers, e[2], e[3])
            /\ Commit(w, "axis_wiggle_return", e[2], [axis |-> e[3]])

\* a wiggle button of the calibration window is pressed
StageCalibrationWiggleRequest ==
    \E k \in Registered, axis \in Axis :
        LET started == StageCalibrationWiggleStart(controllers, k, axis)
        IN  /\ controllers' = started.controllers
            /\ Commit(Raise(World(0), started.outcome), "wiggle_axis_request", k,
                      [axis |-> axis, in_progress |-> controllers.wiggling])

StageCalibrationWiggleReturn ==
    \E e \in controllers.wiggling :
        /\ e[1] = "StageCalibrationController"
        /\ \E w \in {WiggleAxis(World(0), e[2], e[3], Step, WIGGLE_SPEED)} :
            /\ controllers' = StageCalibrationWiggleEnd(controllers, e[2], e[3])
            /\ Commit(w, "wiggle_axis_return", e[2], [axis |-> e[3]])

NextWiggle ==
    \/ AxisWiggleRequest
    \/ AxisWiggleReturn
    \/ StageCalibrationWiggleRequest
    \/ StageCalibrationWiggleReturn

SpecWiggle == InitWiggle /\ [][NextWiggle]_vars

WiggleRequests == {"axis_wiggle", "wiggle_axis_request"}

\* C11: while a wiggle is in progress on a stage of the mover, a wiggle
\* requested on any of its stages, through MovementController.axis_wiggle or
\* through StageCalibrationController.wiggle_axis, is refused, and at no
\* time are two wiggles in progress.
C11_WiggleMutualExclusion ==
    /\ Cardinality(controllers.wiggling) <= 1
    /\ (last.op \in WiggleRequests /\ last.args.in_progress # {}) =>
            last.outcome = "AssertionError"

(***************************************************************************)
(* MoverNew: the registry of stages.  _port_by_orientation is a function   *)
(* from orientations to ports, _calibrations (the variable calibrations)   *)
(* a function from <<orientation, port>> to calibrations.                  *)
(***************************************************************************)
\* Calibration.Orientation and Calibration.DevicePort
Orientation == {"LEFT", "RIGHT", "TOP", "BOTTOM"}
DevicePort == {"INPUT", "OUTPUT"}

\* bidict.put(key, val, OnDup(key=RAISE)), where duplicate values raise by
\* default: an item that is already there is a no-op, a key and a value that
\* belong to two other items raise KeyAndValueDuplicationError, which is
\* both a KeyDuplicationError and a ValueDuplicationError
BidictPut(b, key, val) ==
    LET isdupkey == key \in DOMAIN b
        isdupval == \E k \in DOMAIN b : b[k] = val
    IN  IF isdupkey /\ isdupval
        THEN IF b[key] = val THEN [bidict |-> b, outcome |-> "ok"]
             ELSE [bidict |-> b, outcome |-> "KeyAndValueDuplicationError"]
        ELSE IF isdupkey THEN [bidict |-> b, outcome |-> "KeyDuplicationError"]
        ELSE IF isdupval THEN [bidict |-> b, outcome |-> "ValueDuplicationError"]
        ELSE [bidict |-> [k \in DOMAIN b \cup {key} |-> IF k = key THEN val ELSE b[k]],
              outcome |-> "ok"]

\* del bidict[key]
BidictDelete(b, key) == [k \in DOMAIN b \ {key} |-> b[k]]

\* active_stages
ActiveStages(w) == {w.calibrations[k].stage : k \in DOMAIN w.calibrations}

\* add_stage_calibration: the two isinstance checks, the put into
\* _port_by_orientation with its two except clauses, the check of the stage
\* with its del, and the put into _calibrations, whose exception is not
\* caught
AddStageCalibration(w, stage, orientation, port) ==
    LET put == BidictPut(w.mover.port_by_orientation, orientation, port)
        assigned == [w EXCEPT !.mover.port_by_orientation = put.bidict]
        calibration == NewCalibration(stage, w.stages[stage].connected, orientation, port)
        registered == BidictPut(assigned.calibrations, <<orientation, port>>, calibration)
    IN  IF port \notin DevicePort THEN Raise(w, "ValueError")
        ELSE IF orientation \notin Orientation THEN Raise(w, "ValueError")
        ELSE IF put.outcome # "ok" THEN Raise(w, "MoverError")
        ELSE IF stage \in ActiveStages(assigned)
        THEN Raise([assigned EXCEPT !.mover.port_by_orientation =
                                        BidictDelete(@, orientation)],
                   "MoverError")
        ELSE IF registered.outcome # "ok" THEN Raise(assigned, registered.outcome)
        ELSE [assigned EXCEPT !.calibrations = registered.bidict]

\* MoverNew.reset: _stages_lifted is not among the fields it resets
\* faulty variant: the lift height survives the reset
MoverReset_KeepsZLift(w) ==
    [w EXCEPT !.calibrations = <<>>,
              !.mover.port_by_orientation = <<>>,
              !.mover.speed_xy = None,
              !.mover.speed_z = None,
              !.mover.acceleration_xy = None]

\* reset
MoverReset(w) ==
    [w EXCEPT !.calibrations = <<>>,
              !.mover.port_by_orientation = <<>>,
              !.mover.speed_xy = None,
              !.mover.speed_z = None,
              !.mover.acceleration_xy = None,
              !.mover.z_lift = DEFAULT_SPEED_Z]

(***************************************************************************)
(* SpecRegistry: stages are assigned to orientations and ports and the     *)
(* mover is reset.                                                         *)
(***************************************************************************)
AvailableStages == {"s1", "s2", "s3"}
\* the values a caller passes: members of the enumerations and a string
OrientationInputs == {"LEFT", "RIGHT", "TOP", "left"}
PortInputs == DevicePort \cup {"input"}

InitRegistry ==
    /\ stages = [s \in AvailableStages |-> NewStage]
    /\ calibrations = <<>>
    /\ mover = NewMover
    /\ controllers = NewControllers({})
    /\ last = NoOperation

\* what the two mappings of the mover are
Registry == [port_by_orientation |-> mover.port_by_orientation,
             calibrations |-> calibrations]

AddStageCalibrationCall ==
    \E stage \in AvailableStages, orientation \in OrientationInputs, port \in PortInputs :
        Store(AddStageCalibration(World(0), stage, orientation, port),
              "add_stage_calibration", <<>>,
              [stage |-> stage, orientation |-> orientation, port |-> port,
               before |-> Registry])

MoverResetCall ==
    Store(MoverReset(World(0)), "Mover.reset", <<>>, [z_lift |-> mover.z_lift])

NextRegistry ==
    \/ AddStageCalibrationCall
    \/ MoverResetCall

SpecRegistry == InitRegistry /\ [][NextRegistry]_vars

\* C12: an add_stage_calibration call that fails, for an orientation, a port
\* or a stage that is already assigned or for an invalid orientation or
\* port, leaves the orientation-to-port mapping and the mapping from
\* (orientation, port) to calibrations exactly as they were before the call.
C12_RegistrationAtomic ==
    (last.op = "add_stage_calibration" /\ last.outcome # "ok") =>
        Registry = last.args.before

\* C13: after any sequence of add_stage_calibration and Mover.reset calls
\* each orientation, each port and each stage belongs to at most one
\* registered calibration, and the keys of the calibration mapping are
\* exactly the (orientation, port) pairs of the orientation-to-port mapping.
C13_RegistryInvariant ==
    /\ \A k1 \in Registered, k2 \in Registered :
            (\/ k1[1] = k2[1] \/ k1[2] = k2[2]
             \/ calibrations[k1].stage = calibrations[k2].stage) => k1 = k2
    /\ Registered = {<<o, mover.port_by_orientation[o]>> :
                        o \in DOMAIN mover.port_by_orientation}

(***************************************************************************)
(* MoverNew: lift_stages, lower_stages and move_to_device.                 *)
(***************************************************************************)
\* self.calibrations.values(): the calibrations in the order in which they
\* were registered, the left stage before the right one
RegistrationOrder(w) ==
    SelectSeq(<<LEFT_INPUT, RIGHT_OUTPUT>>, LAMBDA k : k \in DOMAIN w.calibrations)

\* for calibration in self.calibrations.values():
\*     calibration.move_relative(ChipCoordinate(...))
RECURSIVE MoveEachRelative(_, _, _)
MoveEachRelative(w, keys, difference) ==
    IF keys = <<>> THEN w
    ELSE MoveEachRelative(MoveRelative(w, Head(keys), difference, "ChipCoordinate"),
                          Tail(keys), difference)

\* the with-block of lift_stages and lower_stages
MovedInChipFrame(w, difference) ==
    MoverLeaveCoordinateSystem(
        MoveEachRelative(SetCoordinateSystems(w, "ChipCoordinate"),
                         RegistrationOrder(w), difference))

\* faulty variant: the flag is not looked at
LiftStages_FlagIgnored(w) ==
    The({ IF ~Ok(v) THEN v
          ELSE IF ~HasConnectedStages(v) THEN Raise(v, "MoverError")
          ELSE The({ IF ~Ok(m) THEN m ELSE [m EXCEPT !.mover.stages_lifted = TRUE]
                     : m \in {MovedInChipFrame(v, <<0, 0, v.mover.z_lift>>)} })
          : v \in {w} })

\* lift_stages
LiftStages(w) ==
    The({ IF ~Ok(v) THEN v
          ELSE IF ~HasConnectedStages(v) THEN Raise(v, "MoverError")
          ELSE IF v.mover.stages_lifted THEN v
          ELSE The({ IF ~Ok(m) THEN m ELSE [m EXCEPT !.mover.stages_lifted = TRUE]
                     : m \in {MovedInChipFrame(v, <<0, 0, v.mover.z_lift>>)} })
          : v \in {w} })

\* lower_stages
LowerStages(w) ==
    The({ IF ~Ok(v) THEN v
          ELSE IF ~HasConnectedStages(v) THEN Raise(v, "MoverError")
          ELSE IF ~v.mover.stages_lifted THEN v
          ELSE The({ IF ~Ok(m) THEN m ELSE [m EXCEPT !.mover.stages_lifted = FALSE]
                     : m \in {MovedInChipFrame(v, <<0, 0, -v.mover.z_lift>>)} })
          : v \in {w} })

\* input_calibration, output_calibration: _get_calibration(port=...), None
\* when no stage has the port
CalibrationByPort(w, port) ==
    LET orientations == {o \in DOMAIN w.mover.port_by_orientation :
                            w.mover.port_by_orientation[o] = port}
        keys == {<<o, port>> : o \in orientations} \cap DOMAIN w.calibrations
    IN  IF keys = {} THEN None ELSE Some(CHOOSE k \in keys : TRUE)

\* device._in_position and device._out_position: the input at the chip
\* coordinate the device is paired at, the output two Steps to its right
DeviceInPosition(d) == <<DeviceChip(d)[1], DeviceChip(d)[2]>>
DeviceOutPosition(d) == <<DeviceChip(d)[1] + 2 * Step, DeviceChip(d)[2]>>

\* movement_vector.get(orientation) of move_to_device: the entry of the
\* output calibration is written after the one of the input calibration
MovementVector(w, device, orientation) ==
    LET input == CalibrationByPort(w, "INPUT")
        output == CalibrationByPort(w, "OUTPUT")
    IN  IF ~IsNone(output) /\ Get(output)[1] = orientation
        THEN Some(<<DeviceOutPosition(device)[1], DeviceOutPosition(device)[2],
                    w.mover.z_lift>>)
        ELSE IF ~IsNone(input) /\ Get(input)[1] = orientation
        THEN Some(<<DeviceInPosition(device)[1], DeviceInPosition(device)[2],
                    w.mover.z_lift>>)
        ELSE None

\* faulty variant: the stages are lowered before the move
MoveToDevice_LowerFirst(w, device) ==
    IF ~HasConnectedStages(w) THEN Raise(w, "MoverError")
    ELSE The({ IF ~Ok(l) THEN l
               ELSE MoverMoveAbsolute(l, MovementVector(l, device, "LEFT"),
                                      MovementVector(l, device, "RIGHT"))
               : l \in {LowerStages(LiftStages(w))} })

\* move_to_device
MoveToDevice(w, device) ==
    IF ~HasConnectedStages(w) THEN Raise(w, "MoverError")
    ELSE The({ IF ~Ok(l) THEN l
               ELSE LowerStages(
                        MoverMoveAbsolute(l, MovementVector(l, device, "LEFT"),
                                          MovementVector(l, device, "RIGHT")))
               : l \in {LiftStages(w)} })

(***************************************************************************)
(* SpecDevice: the two stages of the mover are lifted, lowered and moved   *)
(* to the devices of the chip.                                             *)
(***************************************************************************)
\* no stage is more than MaxLift lifts above or below the chip plane
MaxLift == 2
LiftsInRange(w) ==
    \A s \in DOMAIN w.stages : Abs(w.stages[s].position[3]) <= MaxLift * w.mover.z_lift

InitDevice ==
    \E level \in MoverLevels, xl \in {-1, 0}, xr \in {1, 2} :
        LET prepared == Prepared(Prepared(FreshWorld(BothStages), LEFT_INPUT, level),
                                 RIGHT_OUTPUT, level)
            w == IF level = "registered" THEN prepared
                 ELSE Placed(Placed(prepared, LEFT_INPUT, <<xl * Step, 0, 0>>),
                             RIGHT_OUTPUT, <<xr * Step, 0, 0>>)
        IN  /\ level = "registered" => (xl = 0 /\ xr = 1)
            /\ calibrations = w.calibrations
            /\ stages = w.stages
            /\ mover = w.mover
            /\ controllers = NewControllers(DOMAIN w.calibrations)
            /\ last = NoOperation

\* lift_stages and lower_stages command each stage once
LiftStagesCall ==
    \E failAt \in FailAt(2) :
        \E w \in {LiftStages(World(failAt))} :
            /\ LiftsInRange(w)
            /\ Store(w, "lift_stages", <<>>, [lifted |-> mover.stages_lifted])

LowerStagesCall ==
    \E failAt \in FailAt(2) :
        \E w \in {LowerStages(World(failAt))} :
            /\ LiftsInRange(w)
            /\ Store(w, "lower_stages", <<>>, [lifted |-> mover.stages_lifted])

\* move_to_device commands each stage three times
MoveToDeviceCall ==
    \E device \in Devices, failAt \in FailAt(2 + 2 + 2) :
        \E w \in {MoveToDevice(World(failAt), device)} :
            /\ LiftsInRange(w)
            /\ StagesInRange(w, MaxSteps)
            /\ Store(w, "move_to_device", <<>>,
                     [lifted |-> mover.stages_lifted, device |-> device])

NextDevice ==
    \/ LiftStagesCall
    \/ LowerStagesCall
    \/ MoveToDeviceCall

SpecDevice == InitDevice /\ [][NextDevice]_vars

\* the command that moves the stage of calibration k by z along chip z
ChipZMove(k, z) ==
    [stage |-> calibrations[k].stage, cmd |-> "move_relative",
     arg |-> Dot(calibrations[k].axes_rotation, <<0, 0, z>>)]

\* every registered calibration has been commanded once, by z along chip z
EachMovedBy(calls, z) ==
    /\ Len(calls) = Cardinality(Registered)
    /\ \A k \in Registered : \E i \in 1..Len(calls) : calls[i] = ChipZMove(k, z)

\* C14: lift_stages with the stages_lifted flag set and lower_stages with
\* the flag clear issue no stage motion and leave the flag as it is; a
\* lift_stages that returns with the flag clear before has moved every
\* registered calibration by +z_lift along chip z and has set the flag, a
\* lower_stages that returns with the flag set before has moved every one by
\* -z_lift and has cleared it.
C14_LiftLowerIdempotent ==
    /\ (last.op = "lift_stages" /\ last.args.lifted) =>
            last.calls = <<>> /\ mover.stages_lifted
    /\ (last.op = "lower_stages" /\ ~last.args.lifted) =>
            last.calls = <<>> /\ ~mover.stages_lifted
    /\ (last.op = "lift_stages" /\ ~last.args.lifted /\ last.outcome = "ok") =>
            EachMovedBy(last.calls, mover.z_lift) /\ mover.stages_lifted
    /\ (last.op = "lower_stages" /\ last.args.lifted /\ last.outcome = "ok") =>
            EachMovedBy(last.calls, -mover.z_lift) /\ ~mover.stages_lifted

\* a second lift_stages has returned without any command, with both stages
\* lifted by the first
C14_Witness ==
    /\ last.op = "lift_stages" /\ last.args.lifted /\ last.outcome = "ok"
    /\ last.calls = <<>>
    /\ \A k \in Registered : stages[calibrations[k].stage].position[3] = mover.z_lift

\* the command that moves the stage of calibration k above the port of the
\* device that the calibration serves, at lift height; None when the
\* calibration has no stage coordinate for it
DeviceMove(k, device) ==
    LET position == IF k[2] = "INPUT" THEN DeviceInPosition(device)
                    ELSE DeviceOutPosition(device)
        target == KabschChipToStage(calibrations[k].full_transformation,
                                    <<position[1], position[2], mover.z_lift>>)
    IN  IF IsNone(target) THEN None
        ELSE Some([stage |-> calibrations[k].stage, cmd |-> "move_absolute",
                   arg |-> Get(target)])

\* the three phases of move_to_device: the lifts (none when the stages were
\* lifted before), the two moves to the device, the lowerings
Lifts == IF last.args.lifted THEN 0 ELSE Cardinality(Registered)
InPhase(i) ==
    IF i <= Lifts THEN "lift"
    ELSE IF i <= Lifts + Cardinality(Registered) THEN "move"
    ELSE "lower"

\* C15: move_to_device lifts all stages, then performs the arbitrated move
\* of the input calibration to the device's input position and of the output
\* calibration to its output position, then lowers all stages: the motion
\* commands it has issued, in order, are lifts of distinct stages, then
\* moves of distinct stages to their device positions, then lowerings of
\* distinct stages, no move before every stage is lifted and no lowering
\* before both moves, and all of them when it returns normally.
C15_MoveToDeviceOrder ==
    last.op = "move_to_device" =>
        LET motions == Motions(last.calls)
            n == Cardinality(Registered)
        IN  /\ last.calls = motions
            /\ Len(motions) <= Lifts + n + n
            /\ \A i \in 1..Len(motions) : \E k \in Registered :
                    CASE InPhase(i) = "lift" -> motions[i] = ChipZMove(k, mover.z_lift)
                      [] InPhase(i) = "move" ->
                            Some(motions[i]) = DeviceMove(k, last.args.device)
                      [] InPhase(i) = "lower" -> motions[i] = ChipZMove(k, -mover.z_lift)
            /\ \A i \in 1..Len(motions), j \in 1..Len(motions) :
                    (i # j /\ InPhase(i) = InPhase(j)) => motions[i].stage # motions[j].stage
            /\ last.outcome = "ok" => Len(motions) = Lifts + n + n

\* move_to_device has returned after lifting, moving and lowering both
\* stages
C15_Witness ==
    /\ last.op = "move_to_device" /\ last.outcome = "ok" /\ ~last.args.lifted
    /\ Len(last.calls) = 2 + 2 + 2
    /\ ~mover.stages_lifted

(***************************************************************************)
(* MoverNew: the settings speed_xy, speed_z and acceleration_xy.  The      *)
(* three properties have the same code up to the names; setting names the  *)
(* field (_speed_xy, ...) and the stage's method (set_speed_xy, ...).      *)
(***************************************************************************)
\* SPEED_LOWER_BOUND .. ACCELERATION_UPPER_BOUND (1e5, 1e7)
SPEED_LOWER_BOUND == 0
SPEED_UPPER_BOUND == 100000
ACCELERATION_LOWER_BOUND == 0
ACCELERATION_UPPER_BOUND == 10000000

Settings == {"speed_xy", "speed_z", "acceleration_xy"}
SetCommand(setting) ==
    CASE setting = "speed_xy" -> "set_speed_xy"
      [] setting = "speed_z" -> "set_speed_z"
      [] setting = "acceleration_xy" -> "set_acceleration_xy"
LowerBound(setting) ==
    IF setting = "acceleration_xy" THEN ACCELERATION_LOWER_BOUND ELSE SPEED_LOWER_BOUND
UpperBound(setting) ==
    IF setting = "acceleration_xy" THEN ACCELERATION_UPPER_BOUND ELSE SPEED_UPPER_BOUND

\* connected_stages: the stages of the calibrations with an open connection,
\* in the order of registration
ConnectedStages(w) ==
    LET keys == RegistrationOrder(w)
    IN  SelectSeq([i \in 1..Len(keys) |-> w.calibrations[keys[i]].stage],
                  LAMBDA s : w.stages[s].connected)

\* for stage in self.connected_stages: stage.set_...(value)
RECURSIVE SetOnEach(_, _, _, _)
SetOnEach(w, connected, setting, value) ==
    IF connected = <<>> THEN w
    ELSE SetOnEach(StageCommand(w, Head(connected), SetCommand(setting), <<value>>),
                   Tail(connected), setting, value)

\* faulty variant: the value is cached before the stages are set
Setter_CachedFirst(w, setting, value) ==
    The({ IF ~Ok(v) THEN v
          ELSE IF ~HasConnectedStages(v) THEN Raise(v, "MoverError")
          ELSE IF IsNone(value) THEN Raise(v, "TypeError")
          ELSE IF Get(value) < LowerBound(setting) \/ Get(value) > UpperBound(setting)
          THEN Raise(v, "ValueError")
          ELSE The({ IF m.outcome = "StageError" THEN Raise(m, "MoverError") ELSE m
                     : m \in {SetOnEach([v EXCEPT !.mover[setting] = value],
                                        ConnectedStages(v), setting, Get(value))} })
          : v \in {w} })

\* the setters: assert_connected_stages, the range check (which compares
\* even None with the bounds), the loop over the connected stages whose
\* RuntimeError becomes a MoverError, and the assignment of the cached value
Setter(w, setting, value) ==
    The({ IF ~Ok(v) THEN v
          ELSE IF ~HasConnectedStages(v) THEN Raise(v, "MoverError")
          ELSE IF IsNone(value) THEN Raise(v, "TypeError")
          ELSE IF Get(value) < LowerBound(setting) \/ Get(value) > UpperBound(setting)
          THEN Raise(v, "ValueError")
          ELSE The({ IF m.outcome = "StageError" THEN Raise(m, "MoverError")
                     ELSE [m EXCEPT !.mover[setting] = value]
                     : m \in {SetOnEach(v, ConnectedStages(v), setting, Get(value))} })
          : v \in {w} })

\* any(s.get_...() != self._... for s in self.connected_stages)
Drifted(w, setting) ==
    \E i \in 1..Len(ConnectedStages(w)) :
        Some(w.stages[ConnectedStages(w)[i]][setting]) # w.mover[setting]

\* the getters: assert_connected_stages, the cached value is set again on
\* all stages when one of them differs from it, and is returned
Getter(w, setting) ==
    The({ IF ~Ok(v) THEN v
          ELSE IF ~HasConnectedStages(v) THEN Raise(v, "MoverError")
          ELSE The({ IF ~Ok(s) THEN s ELSE Return(s, s.mover[setting])
                     : s \in {IF Drifted(v, setting)
                              THEN Setter(v, setting, v.mover[setting]) ELSE v} })
          : v \in {w} })

(***************************************************************************)
(* SpecSettings: the settings of a mover with a left and a right stage are *)
(* written and read, and the stages' own values change under it.           *)
(***************************************************************************)
\* the stages that are connected: none, the left one, both
Connections == {{}, {LEFT_INPUT}, BothStages}

RECURSIVE ConnectedEach(_, _)
ConnectedEach(w, keys) ==
    IF keys = <<>> THEN w ELSE ConnectedEach(ConnectToStage(w, Head(keys)), Tail(keys))

InitSettings ==
    \E connected \in Connections :
        LET fresh == FreshWorld(BothStages)
            w == ConnectedEach(fresh, SelectSeq(RegistrationOrder(fresh),
                                                LAMBDA k : k \in connected))
        IN  /\ calibrations = w.calibrations
            /\ stages = w.stages
            /\ mover = w.mover
            /\ controllers = NewControllers(DOMAIN w.calibrations)
            /\ last = NoOperation

\* the values a caller passes: below the range, in the range, above it
SettingInputs(setting) == {-1, 500, UpperBound(setting) + 1}

\* a setter sends one command to each of the two stages
SetterCall ==
    \E setting \in Settings, failAt \in FailAt(2) :
        \E value \in SettingInputs(setting) :
            Store(Setter(World(failAt), setting, Some(value)), "set", <<>>,
                  [setting |-> setting, value |-> value, failAt |-> failAt,
                   cached |-> mover[setting]])

GetterCall ==
    \E setting \in Settings, failAt \in FailAt(2) :
        Store(Getter(World(failAt), setting), "get", <<>>,
              [setting |-> setting, failAt |-> failAt, cached |-> mover[setting],
               drifted |-> Drifted(World(0), setting)])

\* a stage is left with the wiggle speed (wiggle_axis does not always set
\* the speeds back) or is set by its own controller
StageDrift ==
    \E s \in DOMAIN stages, setting \in {"speed_xy", "speed_z"} :
        /\ stages[s].connected
        /\ stages[s][setting] # WIGGLE_SPEED
        /\ Store([World(0) EXCEPT !.stages[s][setting] = WIGGLE_SPEED],
                 "stage_drift", <<>>, <<>>)

\* z_lift.setter
SetZLift(w, height) ==
    IF height < 0 THEN Raise(w, "AssertionError")
    ELSE [w EXCEPT !.mover.z_lift = height]

\* the heights a caller passes: a negative one and twice the default
LiftInputs == {-1, 2 * DEFAULT_SPEED_Z}

SetZLiftCall ==
    \E height \in LiftInputs :
        Store(SetZLift(World(0), height), "set_z_lift", <<>>, [height |-> height])

NextSettings ==
    \/ SetterCall
    \/ GetterCall
    \/ StageDrift
    \/ SetZLiftCall
    \/ MoverResetCall

SpecSettings == InitSettings /\ [][NextSettings]_vars

\* the live values of the connected stages
LiveValues(setting) ==
    {stages[calibrations[k].stage][setting] :
        k \in {r \in Registered : stages[calibrations[r].stage].connected}}

SomeStageConnected == \E k \in Registered : stages[calibrations[k].stage].connected

\* a command of the operation was made to fail
StageFailed == last.args.failAt \in 1..Len(last.calls)

\* C16: when setting the value on a connected stage fails, the setter of
\* speed_xy, speed_z or acceleration_xy fails as a whole and the cached
\* value of the mover is what it was before; the cached value is the new
\* one only when every connected stage has accepted it.
C16_SetterCachesAfterStages ==
    last.op = "set" =>
        /\ StageFailed => (last.outcome = "MoverError"
                           /\ mover[last.args.setting] = last.args.cached)
        /\ last.outcome # "ok" => mover[last.args.setting] = last.args.cached
        /\ mover[last.args.setting] # last.args.cached =>
                /\ mover[last.args.setting] = Some(last.args.value)
                /\ LiveValues(last.args.setting) = {last.args.value}

\* the second stage refused the value after the first had taken it, and the
\* cached value is still the old one
C16_Witness ==
    /\ last.op = "set" /\ last.args.failAt = 2 /\ last.outcome = "MoverError"
    /\ mover[last.args.setting] = last.args.cached
    /\ last.args.cached # Some(last.args.value)
    /\ stages["s1"][last.args.setting] = last.args.value
    /\ stages["s2"][last.args.setting] # last.args.value

\* C17: in every state of the mover with at least one connected stage,
\* reading speed_xy, speed_z or acceleration_xy returns the cached value of
\* the mover, and when the read returns the live value of every connected
\* stage is the cached value, also where a stage had drifted from it.
C17_GetterResynchronizes ==
    (last.op = "get" /\ SomeStageConnected /\ ~StageFailed) =>
        /\ last.outcome = "ok"
        /\ last.ret = mover[last.args.setting]
        /\ \A live \in LiveValues(last.args.setting) :
                Some(live) = mover[last.args.setting]

(***************************************************************************)
(* Further properties of the calibration state machine (Spec) and of the   *)
(* guarded operations (SpecOps).                                           *)
(***************************************************************************)
\* C18: when stage.get_status() raises StageError or returns nothing,
\* determine_state() does not raise and the state is NOT_CONFIGURED,
\* whatever the validity of the transforms and the state before.
C18_ProbeFailureRecovered ==
    \A k \in Registered :
        (/\ last.op = "determine_state" /\ last.key = k /\ ~last.args.skip_connection
         /\ stages[calibrations[k].stage].status \in {"error", "none"}) =>
            /\ last.outcome = "ok"
            /\ calibrations[k].state = NOT_CONFIGURED

\* determine_state() has returned with NOT_CONFIGURED for a stage whose
\* get_status() raises, with all three transforms valid
C18_Witness ==
    /\ last.op = "determine_state" /\ ~last.args.skip_connection
    /\ last.outcome = "ok"
    /\ stages[calibrations[LEFT_INPUT].stage].status = "error"
    /\ AxesValidOf(LEFT_INPUT) /\ SinglePointValidOf(LEFT_INPUT) /\ FullValidOf(LEFT_INPUT)
    /\ calibrations[LEFT_INPUT].state = NOT_CONFIGURED

\* C19: position, move_relative or move_absolute called while
\* current_coordinate_system is None raises CalibrationError, whatever the
\* state, without running the body and without any stage driver call; called
\* with a coordinate system the operation does not declare it raises
\* ValueError instead.
C19_NoCoordinateSystem ==
    \A k \in Registered :
        (last.op \in GuardedOperations /\ last.key = k) =>
            /\ last.args.scope = "None" =>
                    /\ last.outcome = "CalibrationError"
                    /\ last.bodies = 0 /\ last.calls = <<>>
            /\ last.args.scope \notin (DOMAIN ConstraintsOf(last.op) \cup {"None"}) =>
                    /\ last.outcome = "ValueError"
                    /\ last.bodies = 0 /\ last.calls = <<>>

\* move_absolute was called outside any scope on a fully calibrated
\* calibration and raised CalibrationError
C19_Witness ==
    /\ last.op = "move_absolute" /\ last.args.scope = "None"
    /\ calibrations[LEFT_INPUT].state = FULLY_CALIBRATED
    /\ calibrations[LEFT_INPUT].current_coordinate_system = "None"
    /\ last.outcome = "CalibrationError" /\ last.calls = <<>>

(***************************************************************************)
(* SpecScope: the coordinate system of a calibration is assigned and       *)
(* scoped, and guarded operations are called under what is selected.       *)
(***************************************************************************)
\* calibration.current_coordinate_system = value: a plain attribute
SetCurrentCoordinateSystem(w, k, value) ==
    [w EXCEPT !.calibrations[k].current_coordinate_system = value]

\* the values a caller assigns: None, the two coordinate classes, their
\* base class and a string
SelectorInputs == CoordinateSystems \cup {"None", "chip"}
\* the values the tests expect to be accepted
ValidSelectors == {"None", "ChipCoordinate", "StageCoordinate"}

SetCurrentCoordinateSystemCall ==
    \E k \in Registered, value \in SelectorInputs :
        Store(SetCurrentCoordinateSystem(World(0), k, value),
              "set_current_coordinate_system", k,
              [value |-> value, before |-> calibrations[k].current_coordinate_system])

\* with calibration.in_coordinate_system(value): pass
InCoordinateSystemCall ==
    \E k \in Registered, value \in SelectorInputs :
        Store(LeaveCoordinateSystem(EnterCoordinateSystem(World(0), k, value), k),
              "in_coordinate_system", k, [value |-> value])

NextScope ==
    \/ SetCurrentCoordinateSystemCall
    \/ InCoordinateSystemCall
    \/ PositionCall
    \/ MoveRelativeCall

SpecScope == InitOps /\ [][NextScope]_vars

\* C20: assigning a value other than None, ChipCoordinate or StageCoordinate
\* to current_coordinate_system raises ValueError and leaves the selector as
\* it was, and entering in_coordinate_system(None) raises ValueError.
C20_SelectorValidated ==
    \A k \in Registered :
        /\ (/\ last.op = "set_current_coordinate_system" /\ last.key = k
            /\ last.args.value \notin ValidSelectors) =>
                /\ last.outcome = "ValueError"
                /\ calibrations[k].current_coordinate_system = last.args.before
        /\ (/\ last.op = "in_coordinate_system" /\ last.key = k
            /\ last.args.value = "None") =>
                last.outcome = "ValueError"

(***************************************************************************)
(* Further properties of the two-stage moves (SpecMover).                  *)
(***************************************************************************)
\* the side that alone has a target in the last Mover.move_absolute, None
\* when both or neither have one
SingleSide ==
    IF last.op # "Mover.move_absolute" THEN None
    ELSE IF ~IsNone(last.args.left) /\ IsNone(last.args.right) THEN Some(LEFT_INPUT)
    ELSE IF IsNone(last.args.left) /\ ~IsNone(last.args.right) THEN Some(RIGHT_OUTPUT)
    ELSE None

\* C21: Mover.move_absolute with a target for one side only still compares
\* the start positions of the two stages with the clearance, failing without
\* motion when they violate it; then it commands that side only, once, and
\* the other stage receives no motion command.
C21_SingleSidedMove ==
    (last.locals # <<>> /\ ~IsNone(SingleSide)) =>
        /\ ~Clearance(StartX("LEFT"), StartX("RIGHT")) =>
                (last.outcome = "AssertionError" /\ Motions(last.calls) = <<>>)
        /\ \A i \in 1..Len(StagesCommanded) :
                StagesCommanded[i] = calibrations[Get(SingleSide)].stage
        /\ last.outcome = "ok" =>
                /\ Clearance(StartX("LEFT"), StartX("RIGHT"))
                /\ StagesCommanded = <<calibrations[Get(SingleSide)].stage>>

\* a move of the right stage alone has returned, with one command to it
C21_Witness ==
    /\ last.locals # <<>> /\ SingleSide = Some(RIGHT_OUTPUT)
    /\ last.outcome = "ok"
    /\ StagesCommanded = <<calibrations[RIGHT_OUTPUT].stage>>
    /\ ChipPositionOf(RIGHT_OUTPUT) = Get(last.args.right)

\* the branches of the ordering rule whose condition the two displacements
\* satisfy
CasesApplying(delta_l, delta_r) ==
    {c \in {"left_first", "apart", "towards", "right_first"} :
        \/ c = "left_first" /\ delta_l < 0 /\ delta_r < 0
        \/ c = "apart" /\ delta_l < 0 /\ delta_r >= 0
        \/ c = "towards" /\ delta_l >= 0 /\ delta_r < 0
        \/ c = "right_first" /\ delta_l >= 0 /\ delta_r >= 0}

\* C22: in a move with a target for both stages exactly one of the four sign
\* cases applies to (delta_l, delta_r) and it is the branch taken, so a move
\* that passed both clearance comparisons never fails with the
\* AssertionError of the final else branch.
C22_ExactlyOneCase ==
    (/\ last.op \in MoverMoves /\ last.locals # <<>> /\ BothTargetsGiven
     /\ Clearance(StartX("LEFT"), StartX("RIGHT"))
     /\ Clearance(TargetX("LEFT"), TargetX("RIGHT"))) =>
        LET delta_l == TargetX("LEFT") - StartX("LEFT")
            delta_r == TargetX("RIGHT") - StartX("RIGHT")
        IN  /\ CasesApplying(delta_l, delta_r) = {SignCase(delta_l, delta_r)}
            /\ last.outcome # "AssertionError"

\* a move in which neither stage had to move (both displacements zero) was
\* handled by the fourth case and returned
C22_Witness ==
    /\ last.op = "Mover.move_absolute" /\ last.locals # <<>> /\ BothTargetsGiven
    /\ TargetX("LEFT") = StartX("LEFT") /\ TargetX("RIGHT") = StartX("RIGHT")
    /\ last.outcome = "ok"
    /\ Len(StagesCommanded) = 2

(***************************************************************************)
(* Further properties of the guarded operations and the wiggle (SpecOps).  *)
(***************************************************************************)
\* the one driver command of a move of calibration k
OneMove(k, cmd, arg) ==
    << [stage |-> calibrations[k].stage, cmd |-> cmd, arg |-> arg] >>

\* C23: move_relative with a chip coordinate in the chip frame raises
\* CalibrationError below COORDINATE_SYSTEM_FIXED and from there on calls the
\* driver's move_relative exactly once with
\* axes_rotation.rotate_chip_to_stage(difference), whatever single-point or
\* Kabsch transform exists; with a stage coordinate in the stage frame the
\* driver gets the difference unchanged.
C23_MoveRelativeThroughAxes ==
    \A k \in Registered :
        (last.op = "move_relative" /\ last.key = k) =>
            /\ (/\ last.args.scope = "ChipCoordinate"
                /\ calibrations[k].state < COORDINATE_SYSTEM_FIXED) =>
                    (last.outcome = "CalibrationError" /\ last.calls = <<>>)
            /\ (/\ last.args.scope = "ChipCoordinate"
                /\ last.args.type = "ChipCoordinate"
                /\ calibrations[k].state >= COORDINATE_SYSTEM_FIXED) =>
                    /\ last.outcome \in {"ok", "StageError"}
                    /\ ~IsNone(RotateChipToStage(calibrations[k].axes_rotation,
                                                 last.args.coordinate))
                    /\ last.calls =
                         OneMove(k, "move_relative",
                                 Get(RotateChipToStage(calibrations[k].axes_rotation,
                                                       last.args.coordinate)))
            /\ (/\ last.args.scope = "StageCoordinate"
                /\ last.args.type = "StageCoordinate"
                /\ calibrations[k].state >= CONNECTED) =>
                    /\ last.outcome \in {"ok", "StageError"}
                    /\ last.calls = OneMove(k, "move_relative", last.args.coordinate)

\* a fully calibrated stage was stepped in the chip frame: the driver got
\* the rotated difference, which is neither the difference itself nor its
\* image under the Kabsch transform
C23_Witness ==
    /\ last.op = "move_relative" /\ last.args.scope = "ChipCoordinate"
    /\ last.args.type = "ChipCoordinate" /\ last.outcome = "ok"
    /\ calibrations[LEFT_INPUT].state = FULLY_CALIBRATED
    /\ Len(last.calls) = 1
    /\ Some(last.calls[1].arg) =
         RotateChipToStage(calibrations[LEFT_INPUT].axes_rotation, last.args.coordinate)
    /\ last.calls[1].arg # last.args.coordinate
    /\ Some(last.calls[1].arg) #
         KabschChipToStage(calibrations[LEFT_INPUT].full_transformation,
                           last.args.coordinate)

\* what the two transforms make of the stage position of calibration k
KabschPositionOf(k) ==
    KabschStageToChip(calibrations[k].full_transformation,
                      stages[calibrations[k].stage].position)
SinglePointPositionOf(k) ==
    SPStageToChip(calibrations[k].single_point_transformation,
                  calibrations[k].axes_rotation,
                  stages[calibrations[k].stage].position)

\* C24: position read in the chip frame returns
\* full_transformation.stage_to_chip(stage position) at FULLY_CALIBRATED and
\* single_point_transformation.stage_to_chip(stage position) at
\* SINGLE_POINT_FIXED; read in the stage frame, from CONNECTED on, it
\* returns the stage position itself.
C24_PositionByState ==
    \A k \in Registered :
        (last.op = "position" /\ last.key = k) =>
            /\ (/\ last.args.scope = "ChipCoordinate"
                /\ calibrations[k].state = FULLY_CALIBRATED) =>
                    /\ last.outcome = "ok"
                    /\ last.ret # None /\ last.ret = KabschPositionOf(k)
            /\ (/\ last.args.scope = "ChipCoordinate"
                /\ calibrations[k].state = SINGLE_POINT_FIXED) =>
                    /\ last.outcome = "ok"
                    /\ last.ret # None /\ last.ret = SinglePointPositionOf(k)
            /\ (/\ last.args.scope = "StageCoordinate"
                /\ calibrations[k].state >= CONNECTED) =>
                    /\ last.outcome = "ok"
                    /\ last.ret = Some(stages[calibrations[k].stage].position)

\* the position of a fully calibrated stage was read in the chip frame, at
\* a place where the two transforms and the stage position all differ
C24_Witness ==
    /\ last.op = "position" /\ last.args.scope = "ChipCoordinate"
    /\ calibrations[LEFT_INPUT].state = FULLY_CALIBRATED
    /\ last.outcome = "ok"
    /\ last.ret = KabschPositionOf(LEFT_INPUT)
    /\ last.ret # SinglePointPositionOf(LEFT_INPUT)
    /\ last.ret # Some(stages[calibrations[LEFT_INPUT].stage].position)

\* the stage-frame image of a step of the wiggle distance along a chip axis
WiggleStep(k, axis, distance) ==
    Get(RotateChipToStage(calibrations[k].axes_rotation,
                          WiggleDifference(axis, distance)))

\* C25: a wiggle_axis that returns has sent to the stage, in this order: the
\* wiggle speed for xy and for z, a relative move of +distance along the
\* chip axis rotated to the stage frame, the opposite relative move, and the
\* speeds read at the start; the two moves add up to zero, at most one
\* stage axis is moved, and the stage has the speeds it had before.
C25_WiggleSequence ==
    \A k \in Registered :
        (last.op = "wiggle_axis" /\ last.key = k /\ last.outcome = "ok") =>
            LET s == calibrations[k].stage
                forth == WiggleStep(k, last.args.axis, Step)
            IN  /\ calibrations[k].state >= COORDINATE_SYSTEM_FIXED
                /\ last.calls =
                     << [stage |-> s, cmd |-> "set_speed_xy", arg |-> <<WIGGLE_SPEED>>],
                        [stage |-> s, cmd |-> "set_speed_z", arg |-> <<WIGGLE_SPEED>>],
                        [stage |-> s, cmd |-> "move_relative", arg |-> forth],
                        [stage |-> s, cmd |-> "move_relative", arg |-> VNeg(forth)],
                        [stage |-> s, cmd |-> "set_speed_xy",
                         arg |-> <<last.locals.current_speed_xy>>],
                        [stage |-> s, cmd |-> "set_speed_z",
                         arg |-> <<last.locals.current_speed_z>>] >>
                /\ VAdd(last.calls[3].arg, last.calls[4].arg) = <<0, 0, 0>>
                /\ Cardinality({i \in 1..3 : forth[i] # 0}) = 1
                /\ stages[s].speed_xy = last.locals.current_speed_xy
                /\ stages[s].speed_z = last.locals.current_speed_z

\* the chip's Y axis was wiggled on a stage whose X axis runs against it:
\* the stage moved by -distance, then by +distance, along its X axis
C25_Witness ==
    /\ last.op = "wiggle_axis" /\ last.outcome = "ok" /\ last.args.axis = Y
    /\ Len(last.calls) = 2 + 2 + 2
    /\ last.calls[3].arg = <<-Step, 0, 0>>
    /\ last.calls[4].arg = <<Step, 0, 0>>
    /\ stages[calibrations[LEFT_INPUT].stage].speed_xy # WIGGLE_SPEED

(***************************************************************************)
(* SpecAxes: the axes rotation of one calibration, assigned axis by axis   *)
(* from the identity with every chip axis, direction and stage axis, reset *)
(* and applied to coordinates in both directions.                          *)
(***************************************************************************)
InitAxes ==
    \E w \in {ConnectToStage(FreshWorld({LEFT_INPUT}), LEFT_INPUT)} :
        /\ calibrations = w.calibrations
        /\ stages = w.stages
        /\ mover = w.mover
        /\ controllers = NewControllers(DOMAIN w.calibrations)
        /\ last = NoOperation

Directions == {POSITIVE, NEGATIVE}
\* the coordinate of the tests and one with a zero and a negative component
RotatedCoordinates == {<<1, 2, 3>>, <<Step, 0, -Step>>}

\* calibration.update_axes_rotation(chip_axis, direction, stage_axis)
AssignAxisCall ==
    \E k \in Registered, chip_axis \in Axis, direction \in Directions, stage_axis \in Axis :
        Store(UpdateAxesRotation(World(0), k, chip_axis, direction, stage_axis),
              "update_axes_rotation", k,
              [chip_axis |-> chip_axis, direction |-> direction,
               stage_axis |-> stage_axis])

\* calibration.axes_rotation.rotate_chip_to_stage(chip_coordinate)
RotateChipToStageCall ==
    \E k \in Registered, chip_coordinate \in RotatedCoordinates :
        Store(ReturnOrRaise(World(0),
                            RotateChipToStage(calibrations[k].axes_rotation,
                                              chip_coordinate),
                            "ValueError"),
              "rotate_chip_to_stage", k, [coordinate |-> chip_coordinate])

\* calibration.axes_rotation.rotate_stage_to_chip(stage_coordinate)
RotateStageToChipCall ==
    \E k \in Registered, stage_coordinate \in RotatedCoordinates :
        Store(ReturnOrRaise(World(0),
                            RotateStageToChip(calibrations[k].axes_rotation,
                                              stage_coordinate),
                            "ValueError"),
              "rotate_stage_to_chip", k, [coordinate |-> stage_coordinate])

NextAxes ==
    \/ AssignAxisCall
    \/ CalibrationResetCall
    \/ RotateChipToStageCall
    \/ RotateStageToChipCall

SpecAxes == InitAxes /\ [][NextAxes]_vars

\* the stage axes a chip axis is mapped to: the rows of its column that
\* are not zero
StageAxesOf(m, chip_axis) == {r \in Axis : m[r + 1][chip_axis + 1] # 0}
\* the stage axes that some chip axis is mapped to
AssignedStageAxes(m) == UNION {StageAxesOf(m, c) : c \in Axis}

\* C26: after any sequence of updates from the identity or from a reset
\* every chip axis is mapped to exactly one stage axis, is_valid holds
\* exactly when the three chip axes are mapped to three different stage
\* axes, and an update is never rejected: it returns with the chip axis
\* mapped as requested, whether or not another chip axis has that stage axis.
C26_ValidIffDistinct ==
    \A k \in Registered :
        LET m == calibrations[k].axes_rotation
        IN  /\ \A c \in Axis : Cardinality(StageAxesOf(m, c)) = 1
            /\ AxesIsValid(m) <=> Cardinality(AssignedStageAxes(m)) = 3
            /\ (last.op = "update_axes_rotation" /\ last.key = k) =>
                    /\ last.outcome = "ok"
                    /\ m[last.args.stage_axis + 1][last.args.chip_axis + 1]
                         = last.args.direction
                    /\ StageAxesOf(m, last.args.chip_axis) = {last.args.stage_axis}

\* an update has mapped a second chip axis to a stage axis that was taken:
\* it returned and the rotation is not valid
C26_Witness ==
    /\ last.op = "update_axes_rotation" /\ last.outcome = "ok"
    /\ \E c \in Axis \ {last.args.chip_axis} :
            StageAxesOf(calibrations[LEFT_INPUT].axes_rotation, c)
                = {last.args.stage_axis}
    /\ ~AxesIsValid(calibrations[LEFT_INPUT].axes_rotation)
    /\ calibrations[LEFT_INPUT].state = CONNECTED

\* C27: under each valid assignment of the axes (the 48 signed permutations)
\* rotate_chip_to_stage puts direction * c[chip axis] into the component of
\* the stage axis assigned to the chip axis, rotate_stage_to_chip of the
\* result is c again, and rotate_chip_to_stage of rotate_stage_to_chip(s) is
\* s again.
C27_RotationRoundTrip ==
    \A k \in Registered :
        LET m == calibrations[k].axes_rotation
            c == last.args.coordinate
        IN  (AxesIsValid(m) /\ last.key = k) =>
                /\ last.op = "rotate_chip_to_stage" =>
                        /\ last.outcome = "ok" /\ last.ret # None
                        /\ \A a \in Axis : \A r \in StageAxesOf(m, a) :
                                Get(last.ret)[r + 1] = m[r + 1][a + 1] * c[a + 1]
                        /\ RotateStageToChip(m, Get(last.ret)) = Some(c)
                /\ last.op = "rotate_stage_to_chip" =>
                        /\ last.outcome = "ok" /\ last.ret # None
                        /\ RotateChipToStage(m, Get(last.ret)) = Some(c)

\* (1, 2, 3) was rotated to the stage under chip X -> -stage Z,
\* chip Y -> +stage X, chip Z -> -stage Y, an assignment that is not its
\* own inverse
C27_Witness ==
    /\ last.op = "rotate_chip_to_stage" /\ last.outcome = "ok"
    /\ calibrations[LEFT_INPUT].axes_rotation
         = <<<<0, 1, 0>>, <<0, 0, -1>>, <<-1, 0, 0>>>>
    /\ last.args.coordinate = <<1, 2, 3>>
    /\ last.ret = Some(<<2, -3, -1>>)

(***************************************************************************)
(* SpecConversions: the three transforms of one calibration are updated    *)
(* and reset in any order, and coordinates are converted with each of them *)
(* in both directions, valid or not.                                       *)
(***************************************************************************)
\* full_transformation.chip_to_stage(chip_coordinate)
KabschChipToStageCall ==
    \E k \in Registered, chip_coordinate \in AnchorChipCoordinates :
        Store(ReturnOrRaise(World(0),
                            KabschChipToStage(calibrations[k].full_transformation,
                                              chip_coordinate),
                            "RuntimeError"),
              "full.chip_to_stage", k, [coordinate |-> chip_coordinate])

\* full_transformation.stage_to_chip(stage_coordinate)
KabschStageToChipCall ==
    \E k \in Registered, stage_coordinate \in AnchorStageCoordinates :
        Store(ReturnOrRaise(World(0),
                            KabschStageToChip(calibrations[k].full_transformation,
                                              stage_coordinate),
                            "RuntimeError"),
              "full.stage_to_chip", k, [coordinate |-> stage_coordinate])

\* calibration.update_full_transformation(pairing), the pairing on record
AddPairingCall ==
    \E k \in Registered :
        \E pairing \in Pairings(calibrations[k].stage) :
            Store(UpdateFullTransformation(World(0), k, pairing),
                  "update_full_transformation", k, [pairing |-> pairing])

\* calibration.update_single_point_transformation(pairing) at the second
\* device, whose chip coordinate is not the origin
FixSinglePointAtDeviceCall ==
    \E k \in Registered :
        Store(UpdateSinglePointTransformation(
                  World(0), k, MeasuredPairing(calibrations[k].stage, 2)),
              "update_single_point_transformation", k, <<>>)

NextConversions ==
    \/ UpdateAxesRotationCall
    \/ UpdateSinglePointTransformationCall
    \/ FixSinglePointAtDeviceCall
    \/ AddPairingCall
    \/ CalibrationResetCall
    \/ RotateChipToStageCall
    \/ RotateStageToChipCall
    \/ ChipToStageCall
    \/ StageToChipCall
    \/ KabschChipToStageCall
    \/ KabschStageToChipCall

SpecConversions == InitAxes /\ [][NextConversions]_vars

\* every row and every column has exactly one entry that is not zero, and
\* that entry is 1 or -1
IsSignedPermutation(m) ==
    /\ \A i \in 1..3 : Cardinality({j \in 1..3 : m[i][j] # 0}) = 1
    /\ \A j \in 1..3 : Cardinality({i \in 1..3 : m[i][j] # 0}) = 1
    /\ \A i \in 1..3 : \A j \in 1..3 : m[i][j] \in {-1, 0, 1}

AxesConversions == {"rotate_chip_to_stage", "rotate_stage_to_chip"}
SinglePointConversions == {"chip_to_stage", "stage_to_chip"}
KabschConversions == {"full.chip_to_stage", "full.stage_to_chip"}

\* C28: a conversion with a transform whose validity precondition is unmet
\* raises and returns no coordinate: ValueError from the axes rotation when
\* its matrix is not a signed permutation, RuntimeError from the
\* single-point transform when it has no offset or the axes rotation is not
\* valid, RuntimeError from the Kabsch rotation with fewer than three
\* pairings.
C28_InvalidConversionFails ==
    \A k \in Registered :
        LET c == calibrations[k]
        IN  last.key = k =>
                /\ (/\ last.op \in AxesConversions
                    /\ ~IsSignedPermutation(c.axes_rotation)) =>
                        (last.outcome = "ValueError" /\ last.ret = None)
                /\ (/\ last.op \in SinglePointConversions
                    /\ \/ IsNone(c.single_point_transformation.stage_offset)
                       \/ ~IsSignedPermutation(c.axes_rotation)) =>
                        (last.outcome = "RuntimeError" /\ last.ret = None)
                /\ (/\ last.op \in KabschConversions
                    /\ Len(c.full_transformation.pairings) < MIN_POINTS) =>
                        (last.outcome = "RuntimeError" /\ last.ret = None)

\* the single-point transform, fixed while the axes were valid, was asked
\* for a conversion after an update had made them invalid, and raised
C28_Witness ==
    /\ last.op = "chip_to_stage" /\ last.outcome = "RuntimeError"
    /\ ~IsNone(calibrations[LEFT_INPUT].single_point_transformation.stage_offset)
    /\ ~IsSignedPermutation(calibrations[LEFT_INPUT].axes_rotation)
    /\ Len(calibrations[LEFT_INPUT].full_transformation.pairings) = 2

(***************************************************************************)
(* The pairings of the Kabsch rotation (SpecConversions) and the reset of  *)
(* the calibration (Spec).                                                 *)
(***************************************************************************)
\* the pairing has a stage coordinate, a device and a chip coordinate
IsComplete(pairing) ==
    /\ ~IsNone(pairing.stage_coordinate)
    /\ ~IsNone(pairing.device)
    /\ ~IsNone(pairing.chip_coordinate)

\* the devices of the stored pairings
PairedDevices(pairings) == {pairings[i].device : i \in 1..Len(pairings)}

\* C29: in every step the Kabsch rotation is valid afterwards exactly when
\* it holds three or more pairings; update with a complete pairing of a
\* device that has none appends the pairing; update with an incomplete
\* pairing or with a pairing of a device that has one raises ValueError and
\* leaves the list as it was; reset empties the list; nothing else changes
\* it.
C29_PairingsOnlyGrow ==
    [][\A k \in Registered :
        LET old == calibrations[k].full_transformation.pairings
            new == calibrations'[k].full_transformation.pairings
        IN  /\ KabschIsValid(calibrations'[k].full_transformation) <=> Len(new) >= 3
            /\ Cardinality(PairedDevices(new)) = Len(new)
            /\ IF last'.op = "update_full_transformation" /\ last'.key = k
               THEN IF /\ IsComplete(last'.args.pairing)
                       /\ last'.args.pairing.device \notin PairedDevices(old)
                    THEN last'.outcome = "ok" /\ new = Append(old, last'.args.pairing)
                    ELSE last'.outcome = "ValueError" /\ new = old
               ELSE IF last'.op = "reset" /\ last'.key = k
               THEN new = <<>>
               ELSE new = old]_vars

\* an update with a second pairing of a paired device was rejected while
\* two pairings were stored, and the rotation is not valid
C29_Witness ==
    /\ last.op = "update_full_transformation" /\ last.outcome = "ValueError"
    /\ IsComplete(last.args.pairing)
    /\ last.args.pairing.device
         \in PairedDevices(calibrations[LEFT_INPUT].full_transformation.pairings)
    /\ Len(calibrations[LEFT_INPUT].full_transformation.pairings) = 2
    /\ ~FullValidOf(LEFT_INPUT)

\* C30: after reset() the axes rotation is the identity, the single-point
\* transform has no pairing and no offset, the Kabsch rotation has no
\* pairings, and the state is CONNECTED if the stage is connected and
\* NOT_CONFIGURED if it is not, whatever the stage answers and whatever the
\* state was.
C30_ResetClearsTransforms ==
    \A k \in Registered :
        (last.op = "reset" /\ last.key = k) =>
            LET c == calibrations[k]
            IN  /\ last.outcome = "ok"
                /\ c.axes_rotation = <<<<1, 0, 0>>, <<0, 1, 0>>, <<0, 0, 1>>>>
                /\ IsNone(c.single_point_transformation.pairing)
                /\ IsNone(c.single_point_transformation.stage_offset)
                /\ c.full_transformation.pairings = <<>>
                /\ ~SinglePointValidOf(k) /\ ~FullValidOf(k)
                /\ c.state = IF stages[c.stage].connected
                             THEN CONNECTED ELSE NOT_CONFIGURED

\* reset() has left a calibration CONNECTED whose stage is connected and
\* raises when asked for its status
C30_Witness ==
    /\ last.op = "reset" /\ last.outcome = "ok"
    /\ stages[calibrations[LEFT_INPUT].stage].connected
    /\ stages[calibrations[LEFT_INPUT].stage].status = "error"
    /\ calibrations[LEFT_INPUT].state = CONNECTED
    /\ calibrations[LEFT_INPUT].axes_rotation = Identity

(***************************************************************************)
(* The transforms under updates of the others (SpecConversions).           *)
(***************************************************************************)
\* C31: update_axes_rotation leaves the single-point transform (its pairing,
\* its coordinates and its stage offset) and the Kabsch rotation as they
\* were, so that afterwards the single-point transform is valid exactly when
\* it has an offset and the new rotation is valid.
C31_AxesUpdateKeepsTransforms ==
    [][\A k \in Registered :
        (last'.op = "update_axes_rotation" /\ last'.key = k) =>
            /\ last'.outcome = "ok"
            /\ calibrations'[k].single_point_transformation
                 = calibrations[k].single_point_transformation
            /\ calibrations'[k].full_transformation
                 = calibrations[k].full_transformation
            /\ SPIsValid(calibrations'[k].single_point_transformation,
                         calibrations'[k].axes_rotation)
                 <=> /\ ~IsNone(calibrations[k].single_point_transformation.stage_offset)
                     /\ IsSignedPermutation(calibrations'[k].axes_rotation)]_vars

\* after an update of the axes the single-point transform is valid with an
\* offset that the present rotation would not give for its pairing
C31_Witness ==
    /\ last.op = "update_axes_rotation" /\ last.outcome = "ok"
    /\ SinglePointValidOf(LEFT_INPUT)
    /\ calibrations[LEFT_INPUT].state >= SINGLE_POINT_FIXED
    /\ LET sp == calibrations[LEFT_INPUT].single_point_transformation
       IN  Get(sp.stage_offset) #
             VSub(Get(RotateChipToStage(calibrations[LEFT_INPUT].axes_rotation,
                                        Get(sp.chip_coordinate))),
                  Get(sp.stage_coordinate))

\* C39: an update of the single-point transform that raises leaves its
\* pairing, its chip and stage coordinate and its stage offset as they were
\* before the call.
C39_FailedUpdateLeavesTransform ==
    [][\A k \in Registered :
        (/\ last'.op = "update_single_point_transformation"
         /\ last'.key = k
         /\ last'.outcome # "ok") =>
            calibrations'[k].single_point_transformation
              = calibrations[k].single_point_transformation]_vars

(***************************************************************************)
(* The configuration between the two commands of a move of both stages.    *)
(***************************************************************************)
\* the chip-frame x of the side after the first command and before the
\* second: its target when its stage was commanded first, else its start
IntermediateX(side) ==
    LET key == IF side = "LEFT" THEN LEFT_INPUT ELSE RIGHT_OUTPUT
    IN  IF StagesCommanded[1] = calibrations[key].stage
        THEN TargetX(side) ELSE StartX(side)

\* C34: in a move of both stages that passed the two clearance checks, the
\* configuration after the first stage has reached its target and before
\* the second has moved keeps the left x below the right x minus
\* MIN_FIBER_DISTANCE; when the second command fails the stages stand in
\* that configuration.
C34_IntermediateClearance ==
    (/\ last.op \in MoverMoves /\ last.locals # <<>> /\ BothTargetsGiven
     /\ Len(StagesCommanded) = 2) =>
        /\ Clearance(IntermediateX("LEFT"), IntermediateX("RIGHT"))
        /\ last.outcome = "StageError" =>
            /\ ChipPositionOf(LEFT_INPUT)[1] = IntermediateX("LEFT")
            /\ ChipPositionOf(RIGHT_OUTPUT)[1] = IntermediateX("RIGHT")
            /\ Clearance(ChipPositionOf(LEFT_INPUT)[1], ChipPositionOf(RIGHT_OUTPUT)[1])

\* the stages moved towards each other, the right one first, and the
\* command to the left one failed
C34_Witness ==
    /\ last.op \in MoverMoves /\ last.locals # <<>> /\ BothTargetsGiven
    /\ last.outcome = "StageError"
    /\ StagesCommanded = <<calibrations[RIGHT_OUTPUT].stage, calibrations[LEFT_INPUT].stage>>
    /\ TargetX("LEFT") - StartX("LEFT") > 0
    /\ TargetX("RIGHT") - StartX("RIGHT") < 0
    /\ ChipPositionOf(RIGHT_OUTPUT)[1] = TargetX("RIGHT")
    /\ ChipPositionOf(LEFT_INPUT)[1] = StartX("LEFT")

(***************************************************************************)
(* Lifting and lowering around failures.                                   *)
(***************************************************************************)
\* C37: when move_to_device has terminated, normally or with an error, the
\* stages are lowered again: the stages_lifted flag is clear.
C37_LoweredOnEveryExit ==
    (last.op = "move_to_device" /\ ~last.args.lifted) => ~mover.stages_lifted

\* C32: after Mover.reset no calibration is registered, the mapping from
\* orientations to ports is empty, the cached speed_xy, speed_z and
\* acceleration_xy are unset and z_lift is that of a freshly constructed
\* mover.
C32_ResetRestoresConstruction ==
    last.op = "Mover.reset" =>
        /\ calibrations = <<>>
        /\ mover.port_by_orientation = <<>>
        /\ \A setting \in Settings : IsNone(mover[setting])
        /\ mover.z_lift = NewMover.z_lift

\* the reset came after the lift height had been changed and a speed had
\* been set on a stage
C32_Witness ==
    /\ last.op = "Mover.reset" /\ last.outcome = "ok"
    /\ last.args.z_lift # NewMover.z_lift
    /\ \E s \in DOMAIN stages : stages[s].speed_xy = 500
    /\ mover.z_lift = DEFAULT_SPEED_Z
    /\ Registered = {}

(***************************************************************************)
(* SpecLift: the stages are lifted and lowered while the lift height is    *)
(* changed, the mover is reset, stages are registered again and their axes *)
(* assigned.  Both stages start connected, with their axes assigned, at    *)
(* height 0.                                                               *)
(***************************************************************************)
InitLift ==
    \E w \in {Prepared(Prepared(FreshWorld(BothStages), LEFT_INPUT, "axes"),
                       RIGHT_OUTPUT, "axes")} :
        /\ calibrations = w.calibrations
        /\ stages = w.stages
        /\ mover = w.mover
        /\ controllers = NewControllers(DOMAIN w.calibrations)
        /\ last = NoOperation

\* add_stage_calibration(stage, orientation, port): the first stage as the
\* left input, the second as the right output, as before the reset
RegisterStageCall ==
    \E k \in BothStages :
        \E stage \in {IF k = LEFT_INPUT THEN "s1" ELSE "s2"} :
            Store(AddStageCalibration(World(0), stage, k[1], k[2]),
                  "add_stage_calibration", <<>>,
                  [stage |-> stage, orientation |-> k[1], port |-> k[2]])

\* calibration.update_axes_rotation(Axis.X, Direction.POSITIVE, Axis.X),
\* which fixes the coordinate system of a calibration registered anew
AssignChipXCall ==
    \E k \in Registered :
        Store(UpdateAxesRotation(World(0), k, X, POSITIVE, X),
              "update_axes_rotation", k, <<>>)

NextLift ==
    \/ LiftStagesCall
    \/ LowerStagesCall
    \/ SetZLiftCall
    \/ MoverResetCall
    \/ RegisterStageCall
    \/ AssignChipXCall

SpecLift == InitLift /\ [][NextLift]_vars

\* C38: a lower_stages that follows a lift_stages returns every registered
\* stage to the height it had before the lift, which is 0 for every stage
\* here, whatever was done in between: no stage is lifted twice or lowered
\* without having been lifted.
C38_LoweredToHeightBefore ==
    (last.op = "lower_stages" /\ last.args.lifted /\ last.outcome = "ok") =>
        \A k \in Registered : stages[calibrations[k].stage].position[3] = 0

(***************************************************************************)
(* The cached state against the stage and the transforms.                  *)
(***************************************************************************)
\* C36: a calibration whose stage is disconnected, or was never connected,
\* has the state NOT_CONFIGURED after connect_to_stage, disconnect_from_stage
\* and the updates of the three transforms.
C36_DisconnectedIsNotConfigured ==
    \A k \in Registered :
        (/\ last.op \in {"connect_to_stage", "disconnect_from_stage",
                         "update_axes_rotation", "update_single_point_transformation",
                         "update_full_transformation"}
         /\ ~stages[calibrations[k].stage].connected) =>
            calibrations[k].state = NOT_CONFIGURED

(***************************************************************************)
(* SpecRestore: the updates of the three transforms and the three restore  *)
(* operations of the movement controller, from each level of calibration.  *)
(***************************************************************************)
\* MovementController.restore_axes_rotation: calibration.axes_rotation.reset()
RestoreAxesRotation(w, k) ==
    [w EXCEPT !.calibrations[k].axes_rotation = Identity]

\* MovementController.restore_single_point_fixation:
\* calibration.single_point_transformation.reset()
RestoreSinglePointFixation(w, k) ==
    [w EXCEPT !.calibrations[k].single_point_transformation = SPEmpty]

\* MovementController.restore_full_calibration:
\* calibration.full_transformation.reset()
RestoreFullCalibration(w, k) ==
    [w EXCEPT !.calibrations[k].full_transformation = KabschEmpty]

RestoreAxesRotationCall ==
    \E k \in Registered :
        Store(RestoreAxesRotation(World(0), k), "restore_axes_rotation", k, <<>>)

RestoreSinglePointFixationCall ==
    \E k \in Registered :
        Store(RestoreSinglePointFixation(World(0), k),
              "restore_single_point_fixation", k, <<>>)

RestoreFullCalibrationCall ==
    \E k \in Registered :
        Store(RestoreFullCalibration(World(0), k), "restore_full_calibration", k, <<>>)

NextRestore ==
    \/ UpdateAxesRotationCall
    \/ UpdateSinglePointTransformationCall
    \/ UpdateFullTransformationCall
    \/ RestoreAxesRotationCall
    \/ RestoreSinglePointFixationCall
    \/ RestoreFullCalibrationCall
    \/ PositionCall

SpecRestore == InitOps /\ [][NextRestore]_vars

\* C35: the cached state of a calibration is never above the level that the
\* validity of its transforms justifies: FULLY_CALIBRATED only with a valid
\* Kabsch rotation, SINGLE_POINT_FIXED or more only with a valid single
\* point, COORDINATE_SYSTEM_FIXED or more only with a valid axes rotation.
C35_StateJustifiedByTransforms ==
    \A k \in Registered :
        /\ calibrations[k].state >= COORDINATE_SYSTEM_FIXED => AxesValidOf(k)
        /\ calibrations[k].state >= SINGLE_POINT_FIXED => SinglePointValidOf(k)
        /\ calibrations[k].state = FULLY_CALIBRATED => FullValidOf(k)

(***************************************************************************)
(* SpecState: the state of the mover over two calibrations, each at its    *)
(* own level, which are connected, disconnected, updated and dropped.      *)
(***************************************************************************)
\* the states of the registered calibrations
StatesOf(w) == {w.calibrations[k].state : k \in DOMAIN w.calibrations}

\* faulty variant: calibrations in different states yield the highest one
MoverState_Highest(w) ==
    IF ~HasConnectedStages(w) THEN Return(w, Some(NOT_CONFIGURED))
    ELSE Return(w, Some(CHOOSE s \in StatesOf(w) : \A o \in StatesOf(w) : o <= s))

\* state
MoverState(w) ==
    IF ~HasConnectedStages(w) THEN Return(w, Some(NOT_CONFIGURED))
    ELSE IF Cardinality(StatesOf(w)) # 1 THEN Raise(w, "MoverError")
    ELSE Return(w, Some(CHOOSE s \in StatesOf(w) : TRUE))

\* can_move_to_device
CanMoveToDevice(w) ==
    The({ IF ~Ok(s) THEN s
          ELSE Return(s, Some(Get(s.ret) = SINGLE_POINT_FIXED
                                \/ Get(s.ret) = FULLY_CALIBRATED))
          : s \in {MoverState(w)} })

InitState ==
    \E left \in Levels, right \in Levels :
        \E w \in {Prepared(Prepared(FreshWorld(BothStages), LEFT_INPUT, left),
                           RIGHT_OUTPUT, right)} :
            /\ calibrations = w.calibrations
            /\ stages = w.stages
            /\ mover = w.mover
            /\ controllers = NewControllers(DOMAIN w.calibrations)
            /\ last = NoOperation

MoverStateCall ==
    Store(MoverState(World(0)), "Mover.state", <<>>, <<>>)

CanMoveToDeviceCall ==
    Store(CanMoveToDevice(World(0)), "can_move_to_device", <<>>, <<>>)

NextState ==
    \/ MoverStateCall
    \/ CanMoveToDeviceCall
    \/ ConnectToStageCall
    \/ DisconnectFromStageCall
    \/ UpdateAxesRotationCall
    \/ MoverResetCall

SpecState == InitState /\ [][NextState]_vars

\* the states of the registered calibrations, read from the calibrations
RegisteredStates == {calibrations[k].state : k \in Registered}

\* C33: Mover.state returns NOT_CONFIGURED when no registered stage is
\* connected; otherwise it returns the one state all registered calibrations
\* are in and raises MoverError when they are in different states.
\* can_move_to_device returns true exactly when that state is
\* SINGLE_POINT_FIXED or FULLY_CALIBRATED, and false for every other state
\* that Mover.state returns.
C33_CommonState ==
    /\ last.op = "Mover.state" =>
        IF ~SomeStageConnected
        THEN last.outcome = "ok" /\ last.ret = Some(NOT_CONFIGURED)
        ELSE IF Cardinality(RegisteredStates) = 1
        THEN last.outcome = "ok" /\ {Get(last.ret)} = RegisteredStates
        ELSE last.outcome = "MoverError"
    /\ last.op = "can_move_to_device" =>
        /\ (last.outcome = "ok" /\ last.ret = Some(TRUE))
             <=> /\ SomeStageConnected
                 /\ \/ RegisteredStates = {SINGLE_POINT_FIXED}
                    \/ RegisteredStates = {FULLY_CALIBRATED}
        /\ (last.outcome = "ok" /\ last.ret = Some(FALSE))
             <=> \/ ~SomeStageConnected
                 \/ /\ Cardinality(RegisteredStates) = 1
                    /\ RegisteredStates \cap {SINGLE_POINT_FIXED, FULLY_CALIBRATED} = {}

\* one stage is connected and the calibrations are in different states:
\* Mover.state has raised MoverError
C33_Witness ==
    /\ last.op = "Mover.state" /\ last.outcome = "MoverError"
    /\ SomeStageConnected
    /\ calibrations[LEFT_INPUT].state = FULLY_CALIBRATED
    /\ calibrations[RIGHT_OUTPUT].state = NOT_CONFIGURED

(***************************************************************************)
(* SpecSingle: a mover with one stage only, registered as the left input   *)
(* or as the right output, connected, with its single point fixed or fully *)
(* calibrated.                                                             *)
(***************************************************************************)
InitSingle ==
    \E k \in BothStages, level \in {"single", "full"} :
        \E w \in {Prepared(FreshWorld({k}), k, level)} :
            /\ calibrations = w.calibrations
            /\ stages = w.stages
            /\ mover = w.mover
            /\ controllers = NewControllers(DOMAIN w.calibrations)
            /\ last = NoOperation

NextSingle ==
    \/ MoverMoveAbsoluteCall
    \/ MoveToDeviceCall
    \/ LiftStagesCall
    \/ LowerStagesCall

SpecSingle == InitSingle /\ [][NextSingle]_vars

\* the movement has a target for the registered stage and for no other
TargetForRegisteredOnly ==
    /\ ~IsNone(SingleSide)
    /\ Registered = {Get(SingleSide)}

\* C40: with only one stage registered, at SINGLE_POINT_FIXED or above,
\* Mover.move_absolute with a target for that stage, and move_to_device,
\* fail only when the stage fails, and a move_absolute that returns has
\* commanded that stage once.
C40_SingleStageMoves ==
    /\ (last.op = "Mover.move_absolute" /\ TargetForRegisteredOnly) =>
        /\ last.outcome \in {"ok", "StageError"}
        /\ last.outcome = "ok" =>
                StagesCommanded = <<calibrations[Get(SingleSide)].stage>>
    /\ last.op = "move_to_device" => last.outcome \in {"ok", "StageError"}

=============================================================================
